---------------------------- MODULE Spec2Model ----------------------------
(***************************************************************************)
(* A model of the webdevtracker single-page client (App, CoursesView,      *)
(* CourseCard, CourseDetailModal, DailyTracker) together with the REST     *)
(* backend it talks to.  Line numbers refer to src/unnamed/part_001 (the   *)
(* refined brutalist variant); the two other variants carry the same       *)
(* handlers.                                                               *)
(***************************************************************************)
EXTENDS Integers, Sequences, FiniteSets, TLC

(***************************************************************************)
(* Bounds of the model.                                                    *)
(***************************************************************************)
MaxCalls == 1          \* updateCourseProgress calls in flight at once
MaxLen == 3            \* longest course list drawn for the filter/grouping model
MaxEntries == 2        \* per-course entries in the daily tracker form
MaxPosts == 1          \* daily-log submissions not yet wholly handled
MaxLogs == 1           \* daily logs the backend comes to hold

(***************************************************************************)
(* Values.                                                                 *)
(***************************************************************************)
NotStarted == "Not Started"
InProgress == "In Progress"
Completed == "Completed"
Statuses == {NotStarted, InProgress, Completed}
Priorities == {"MUST", "Optional"}
Phases == {1, 2}
PhaseTitles == {"HTML", "CSS"}

\* The slider of the detail modal: <input type="range" min="0" max="100">.
SliderMin == 0
SliderMax == 100
\* Progress values sampled from the slider's range: both ends, the value
\* `start` writes and the last value below completion.
SliderValues == {p \in SliderMin..SliderMax : p \in {0, 5, 99, 100}}

VARIABLES
    \* ---- backend (the REST collaborator)
    db,                \* course id -> the course document of the backend
    dbLogs,            \* the daily logs held by the backend
    dbPlanned,         \* the planned sessions held by the backend
    \* ---- App state (useState hooks, part_001:9-18)
    courses,           \* last fetched course list
    analytics,         \* <<>> (null) or <<summary>>
    dailyLogs,
    plannedSessions,
    loading,
    selectedPhase,     \* 0 encodes null
    statusFilter,
    priorityFilter,
    showCourseDetail,  \* <<>> (null) or <<course>>
    \* ---- CourseDetailModal state (part_001:1080)
    progress,
    \* ---- async positions
    initPc,            \* initializeApp: "seed", "fetching", "done"
    initFetch,         \* the four fetches of Promise.all
    updates,           \* updateCourseProgress calls in flight
    refetch,           \* the fetches of onLogAdded calls, one batch per call
    \* ---- what the last handler invocation was given and did
    lastCall,
    \* ---- what CoursesView, or a list of recent logs, last rendered
    view,
    \* ---- DailyTracker state (part_001:523-526) and its effects
    selectedDate,
    selectedCourses,
    notes,
    mood,
    alertMsg,          \* the last alert() shown, "" for none
    posts,             \* POST /api/logs requests in flight, oldest first
    \* ---- CalendarView state (part_001:727-732) and its effects
    currentDate,       \* [year, month]: the month shown, month 0-based
    showAddModal,
    calendarSelectedDate,  \* selectedDate of CalendarView: <<>> (null) or <<dateStr>>
    selectedCourse,    \* 0 encodes ''
    estimatedTime,
    planNotes,
    sessionCalls,      \* POST and DELETE /api/planned requests in flight
    plannedFetch,      \* the fetches of onSessionAdded / onSessionDeleted
    dbNextId,          \* the id the backend gives the next planned session
    todayMonth,        \* [year, month] of new Date(), the month of today
    monthsMoved,       \* NEXT clicks minus PREV clicks since mount or TODAY
    calendar           \* what CalendarView last rendered

appVars == <<db, dbLogs, dbPlanned, courses, analytics, dailyLogs,
             plannedSessions, loading,
             showCourseDetail, progress, initPc, initFetch, updates, refetch,
             lastCall>>
filterVars == <<selectedPhase, statusFilter, priorityFilter, view>>
trackerVars == <<selectedDate, selectedCourses, notes, mood, alertMsg, posts>>
calendarVars == <<currentDate, showAddModal, calendarSelectedDate, selectedCourse,
                  estimatedTime, planNotes, sessionCalls, plannedFetch,
                  dbNextId, todayMonth, monthsMoved, calendar>>
vars == <<appVars, filterVars, trackerVars, calendarVars>>

(***************************************************************************)
(* The backend.  Its code is not part of the client sources: it is         *)
(* modelled from the interface table (a PATCH stores the progress and the  *)
(* status it is sent, a GET returns the stored list).                      *)
(***************************************************************************)
\* The catalog the seed operation stores: what of a course never changes.
Catalog ==
    <<[id |-> 1, title |-> "HTML Basics", phase |-> 1, phase_title |-> "HTML",
       priority |-> "MUST"]>>

CourseIds == DOMAIN Catalog

\* Data model: status = Completed <=> progress = 100, Not Started => progress = 0.
ValidPair(p, s) ==
    /\ (s = Completed) <=> (p = 100)
    /\ (s = NotStarted) => (p = 0)

SeededPairs ==
    {r \in [progress : SliderValues, status : Statuses] :
        /\ ValidPair(r.progress, r.status)
        /\ (r.progress = 0) => (r.status = NotStarted)}

\* The course document the seed stores for course i, with pair r as its
\* progress and status.
Seeded(i, r) ==
    [title |-> Catalog[i].title,
     phase |-> Catalog[i].phase,
     phase_title |-> Catalog[i].phase_title,
     priority |-> Catalog[i].priority,
     status |-> r.status,
     progress |-> r.progress]

Unstarted == [progress |-> 0, status |-> NotStarted]

\* GET /api/courses
CourseList(d) ==
    [i \in DOMAIN d |->
        [id |-> i,
         title |-> d[i].title,
         phase |-> d[i].phase,
         phase_title |-> d[i].phase_title,
         priority |-> d[i].priority,
         status |-> d[i].status,
         progress |-> d[i].progress]]

\* GET /api/analytics/summary
Summary(d) ==
    [total_courses |-> Len(Catalog),
     completed_courses |-> Cardinality({i \in CourseIds : d[i].status = Completed}),
     in_progress_courses |-> Cardinality({i \in CourseIds : d[i].status = InProgress})]

\* Mutant: the update also puts the course back into no phase.
ApplyPatch_ResetsPhase(d, id, p, s) ==
    [d EXCEPT ![id].progress = p, ![id].status = s, ![id].phase = 0,
              ![id].phase_title = ""]

\* PATCH /api/courses/{id}/progress?progress=..&status=..: the two fields of
\* the course document are set, the others kept.
ApplyPatch(d, id, p, s) ==
    [d EXCEPT ![id].progress = p, ![id].status = s]

Lists == {"courses", "analytics", "logs", "planned"}

NoData == [courses |-> <<>>, summary |-> <<>>, logs |-> <<>>, planned |-> <<>>]

\* The body of the response to GET <list>, computed when the backend handles it.
Reply(l) ==
    CASE l = "courses" -> [NoData EXCEPT !.courses = CourseList(db)]
      [] l = "analytics" -> [NoData EXCEPT !.summary = <<Summary(db)>>]
      [] l = "logs" -> [NoData EXCEPT !.logs = dbLogs]
      [] l = "planned" -> [NoData EXCEPT !.planned = dbPlanned]

(***************************************************************************)
(* App: initializeApp and the four fetches (part_001:24-75).               *)
(***************************************************************************)
\* setCourses / setAnalytics / setDailyLogs / setPlannedSessions(response.data)
SetList(l, data) ==
    /\ courses' = IF l = "courses" THEN data.courses ELSE courses
    /\ analytics' = IF l = "analytics" THEN data.summary ELSE analytics
    /\ dailyLogs' = IF l = "logs" THEN data.logs ELSE dailyLogs
    /\ plannedSessions' = IF l = "planned" THEN data.planned ELSE plannedSessions

\* lastCall when the latest step ran none of the three progress handlers.
NoCall == [op |-> "none", id |-> 0, was |-> "", sent |-> FALSE]

\* POST /api/init-database answered: Promise.all issues the four GETs.
SeedOk ==
    /\ initPc = "seed"
    /\ initPc' = "fetching"
    /\ initFetch' = [l \in Lists |-> [st |-> "sent", data |-> NoData]]
    /\ lastCall' = NoCall
    /\ UNCHANGED <<db, dbLogs, dbPlanned, courses, analytics, dailyLogs,
                   plannedSessions, loading, showCourseDetail, progress,
                   updates>>
    /\ UNCHANGED <<refetch, filterVars, trackerVars, calendarVars>>

\* Mutant: setLoading(false) sits at the end of the try, not in a finally.
SeedFail_NoFinally ==
    /\ initPc = "seed"
    /\ initPc' = "done"
    /\ lastCall' = NoCall
    /\ UNCHANGED <<db, dbLogs, dbPlanned, courses, analytics, dailyLogs,
                   plannedSessions, loading, showCourseDetail, progress,
                   initFetch, updates>>
    /\ UNCHANGED <<refetch, filterVars, trackerVars, calendarVars>>

\* Mutant: the four GETs are issued after the try, whatever became of the
\* POST, and are not awaited.
SeedFail_FetchesAnyway ==
    /\ initPc = "seed"
    /\ initPc' = "done"
    /\ loading' = FALSE
    /\ initFetch' = [l \in Lists |-> [st |-> "sent", data |-> NoData]]
    /\ lastCall' = NoCall
    /\ UNCHANGED <<db, dbLogs, dbPlanned, courses, analytics, dailyLogs,
                   plannedSessions, showCourseDetail, progress, updates>>
    /\ UNCHANGED <<refetch, filterVars, trackerVars, calendarVars>>

\* POST /api/init-database failed: catch, then finally setLoading(false).
SeedFail ==
    /\ initPc = "seed"
    /\ initPc' = "done"
    /\ loading' = FALSE
    /\ lastCall' = NoCall
    /\ UNCHANGED <<db, dbLogs, dbPlanned, courses, analytics, dailyLogs,
                   plannedSessions, showCourseDetail, progress, initFetch,
                   updates>>
    /\ UNCHANGED <<refetch, filterVars, trackerVars, calendarVars>>

\* The backend handles one of the four GETs.
InitServe(l) ==
    /\ initPc = "fetching"
    /\ initFetch[l].st = "sent"
    /\ initFetch' = [initFetch EXCEPT ![l] = [st |-> "replied", data |-> Reply(l)]]
    /\ lastCall' = NoCall
    /\ UNCHANGED <<db, dbLogs, dbPlanned, courses, analytics, dailyLogs,
                   plannedSessions, loading, showCourseDetail, progress,
                   initPc, updates>>
    /\ UNCHANGED <<refetch, filterVars, trackerVars, calendarVars>>

\* The response arrives: the fetch stores it.
InitDeliver(l) ==
    /\ initPc = "fetching"
    /\ initFetch[l].st = "replied"
    /\ SetList(l, initFetch[l].data)
    /\ initFetch' = [initFetch EXCEPT ![l] = [st |-> "done", data |-> NoData]]
    /\ lastCall' = NoCall
    /\ UNCHANGED <<db, dbLogs, dbPlanned, loading, showCourseDetail, progress,
                   initPc, updates>>
    /\ UNCHANGED <<refetch, filterVars, trackerVars, calendarVars>>

\* The request fails: the fetch's own catch logs it and keeps the list.
InitFail(l) ==
    /\ initPc = "fetching"
    /\ initFetch[l].st \in {"sent", "replied"}
    /\ initFetch' = [initFetch EXCEPT ![l] = [st |-> "done", data |-> NoData]]
    /\ lastCall' = NoCall
    /\ UNCHANGED <<db, dbLogs, dbPlanned, courses, analytics, dailyLogs,
                   plannedSessions, loading, showCourseDetail, progress,
                   initPc, updates>>
    /\ UNCHANGED <<refetch, filterVars, trackerVars, calendarVars>>

\* Promise.all resolves, finally setLoading(false).
InitFinish ==
    /\ initPc = "fetching"
    /\ \A l \in Lists : initFetch[l].st = "done"
    /\ initPc' = "done"
    /\ loading' = FALSE
    /\ lastCall' = NoCall
    /\ UNCHANGED <<db, dbLogs, dbPlanned, courses, analytics, dailyLogs,
                   plannedSessions, showCourseDetail, progress, initFetch,
                   updates>>
    /\ UNCHANGED <<refetch, filterVars, trackerVars, calendarVars>>

(***************************************************************************)
(* App: the progress mutation (part_001:77-95, 199-208) and the detail     *)
(* modal (part_001:1079-1085).                                             *)
(***************************************************************************)
StartProgress == 5
CompleteProgress == 100

RemoveAt(seq, k) ==
    [j \in 1..(Len(seq) - 1) |-> IF j < k THEN seq[j] ELSE seq[j + 1]]

\* updateCourseProgress(courseId, progress, status) is entered: the PATCH is
\* issued.  close marks the call made by the modal's onUpdate, which runs
\* setShowCourseDetail(null) once the call has returned.
UpdateCourseProgress(courseId, p, s, close) ==
    /\ Len(updates) < MaxCalls
    /\ updates' = Append(updates,
           [id |-> courseId, progress |-> p, status |-> s, close |-> close,
            pc |-> "patch", st |-> "sent", data |-> NoData])

\* Mutant: handleStartCourse without its status guard.
HandleStartCourse_NoGuard(course) ==
    /\ UpdateCourseProgress(course.id, StartProgress, InProgress, FALSE)
    /\ lastCall' = [op |-> "start", id |-> course.id, was |-> course.status,
                    sent |-> TRUE]

\* handleStartCourse(course), part_001:87-91
HandleStartCourse(course) ==
    /\ IF course.status = NotStarted
         THEN UpdateCourseProgress(course.id, StartProgress, InProgress, FALSE)
         ELSE UNCHANGED updates
    /\ lastCall' = [op |-> "start", id |-> course.id, was |-> course.status,
                    sent |-> (course.status = NotStarted)]

\* Mutant: handleCompleteCourse guarded the way the DONE button is shown.
HandleCompleteCourse_OnlyInProgress(course) ==
    /\ IF course.status = InProgress
         THEN UpdateCourseProgress(course.id, CompleteProgress, Completed, FALSE)
         ELSE UNCHANGED updates
    /\ lastCall' = [op |-> "complete", id |-> course.id, was |-> course.status,
                    sent |-> (course.status = InProgress)]

\* handleCompleteCourse(course), part_001:93-95
HandleCompleteCourse(course) ==
    /\ UpdateCourseProgress(course.id, CompleteProgress, Completed, FALSE)
    /\ lastCall' = [op |-> "complete", id |-> course.id, was |-> course.status,
                    sent |-> TRUE]

\* Mutant: progress > 100 instead of progress >= 100.
DeriveStatus_StrictlyAbove(p) ==
    IF p > 100 THEN Completed ELSE IF p > 0 THEN InProgress ELSE NotStarted

\* Mutant: the Not Started branch is missing.
DeriveStatus_NeverNotStarted(p) ==
    IF p >= 100 THEN Completed ELSE InProgress

\* const status = progress >= 100 ? 'Completed' : progress > 0 ? 'In Progress'
\*                                                             : 'Not Started'
DeriveStatus(p) ==
    IF p >= 100 THEN Completed ELSE IF p > 0 THEN InProgress ELSE NotStarted

\* CourseDetailModal.handleUpdate with App's onUpdate, part_001:1082-1085, 203-206
HandleUpdate(course, p) ==
    /\ UpdateCourseProgress(course.id, p, DeriveStatus(p), TRUE)
    /\ lastCall' = [op |-> "update", id |-> course.id, was |-> course.status,
                    sent |-> TRUE]

\* The START and DONE buttons of a card (part_001:495-512).  A card shows
\* START only on a Not Started course and DONE only on an In Progress one;
\* the handlers accept any course, and are invoked here with every course of
\* the list so that their own guards decide.  The modal's overlay covers the
\* cards while it is open.
ClickStart(i) ==
    /\ ~loading
    /\ showCourseDetail = <<>>
    /\ i \in DOMAIN courses
    /\ HandleStartCourse(courses[i])
    /\ UNCHANGED <<db, dbLogs, dbPlanned, courses, analytics, dailyLogs,
                   plannedSessions, loading, showCourseDetail, progress,
                   initPc, initFetch>>
    /\ UNCHANGED <<refetch, filterVars, trackerVars, calendarVars>>

ClickDone(i) ==
    /\ ~loading
    /\ showCourseDetail = <<>>
    /\ i \in DOMAIN courses
    /\ HandleCompleteCourse(courses[i])
    /\ UNCHANGED <<db, dbLogs, dbPlanned, courses, analytics, dailyLogs,
                   plannedSessions, loading, showCourseDetail, progress,
                   initPc, initFetch>>
    /\ UNCHANGED <<refetch, filterVars, trackerVars, calendarVars>>

\* A click on a card: setShowCourseDetail(course); the modal mounts with
\* useState(course.progress).
OpenModal(i) ==
    /\ ~loading
    /\ showCourseDetail = <<>>
    /\ i \in DOMAIN courses
    /\ showCourseDetail' = <<courses[i]>>
    /\ progress' = courses[i].progress
    /\ lastCall' = NoCall
    /\ UNCHANGED <<db, dbLogs, dbPlanned, courses, analytics, dailyLogs,
                   plannedSessions, loading, initPc, initFetch, updates>>
    /\ UNCHANGED <<refetch, filterVars, trackerVars, calendarVars>>

\* The slider's onChange: setProgress(parseInt(e.target.value))
SetProgress(p) ==
    /\ showCourseDetail # <<>>
    /\ p \in SliderValues
    /\ progress' = p
    /\ lastCall' = NoCall
    /\ UNCHANGED <<db, dbLogs, dbPlanned, courses, analytics, dailyLogs,
                   plannedSessions, loading, showCourseDetail, initPc, initFetch,
                   updates>>
    /\ UNCHANGED <<refetch, filterVars, trackerVars, calendarVars>>

\* The UPDATE PROGRESS button.
ClickUpdate ==
    /\ showCourseDetail # <<>>
    /\ HandleUpdate(showCourseDetail[1], progress)
    /\ UNCHANGED <<db, dbLogs, dbPlanned, courses, analytics, dailyLogs,
                   plannedSessions, loading, showCourseDetail, progress,
                   initPc, initFetch>>
    /\ UNCHANGED <<refetch, filterVars, trackerVars, calendarVars>>

\* onClose: setShowCourseDetail(null); the modal unmounts.
CloseModal ==
    /\ showCourseDetail # <<>>
    /\ showCourseDetail' = <<>>
    /\ progress' = 0
    /\ lastCall' = NoCall
    /\ UNCHANGED <<db, dbLogs, dbPlanned, courses, analytics, dailyLogs,
                   plannedSessions, loading, initPc, initFetch, updates>>
    /\ UNCHANGED <<refetch, filterVars, trackerVars, calendarVars>>

\* updateCourseProgress returns (after fetchAnalytics, or from its catch);
\* the modal's onUpdate then closes whatever modal is shown.
Return(k) ==
    /\ updates' = RemoveAt(updates, k)
    /\ showCourseDetail' = IF updates[k].close THEN <<>> ELSE showCourseDetail
    /\ progress' = IF updates[k].close THEN 0 ELSE progress

\* The next await of call k: a GET of list l is issued.
Await(k, l) ==
    /\ updates' = [updates EXCEPT ![k].pc = l, ![k].st = "sent", ![k].data = NoData]
    /\ UNCHANGED <<showCourseDetail, progress>>

\* Mutant: the client applies the update to its own list once the PATCH
\* has succeeded, ahead of the fetch.
PatchOk_SetsLocal(k) ==
    /\ k \in DOMAIN updates
    /\ updates[k].pc = "patch"
    /\ db' = ApplyPatch(db, updates[k].id, updates[k].progress, updates[k].status)
    /\ courses' = [i \in DOMAIN courses |->
                      IF courses[i].id = updates[k].id
                        THEN [courses[i] EXCEPT !.progress = updates[k].progress,
                                                !.status = updates[k].status]
                        ELSE courses[i]]
    /\ Await(k, "courses")
    /\ lastCall' = NoCall
    /\ UNCHANGED <<dbLogs, dbPlanned, analytics, dailyLogs,
                   plannedSessions, loading, initPc, initFetch>>
    /\ UNCHANGED <<refetch, filterVars, trackerVars, calendarVars>>

\* The backend applies the PATCH and answers; fetchCourses issues its GET.
PatchOk(k) ==
    /\ k \in DOMAIN updates
    /\ updates[k].pc = "patch"
    /\ db' = ApplyPatch(db, updates[k].id, updates[k].progress, updates[k].status)
    /\ Await(k, "courses")
    /\ lastCall' = NoCall
    /\ UNCHANGED <<dbLogs, dbPlanned, courses, analytics, dailyLogs,
                   plannedSessions, loading, initPc, initFetch>>
    /\ UNCHANGED <<refetch, filterVars, trackerVars, calendarVars>>

\* The backend applies the PATCH but its answer is lost: the catch logs it.
PatchLost(k) ==
    /\ k \in DOMAIN updates
    /\ updates[k].pc = "patch"
    /\ db' = ApplyPatch(db, updates[k].id, updates[k].progress, updates[k].status)
    /\ Return(k)
    /\ lastCall' = NoCall
    /\ UNCHANGED <<dbLogs, dbPlanned, courses, analytics, dailyLogs,
                   plannedSessions, loading, initPc, initFetch>>
    /\ UNCHANGED <<refetch, filterVars, trackerVars, calendarVars>>

\* The PATCH never reaches the backend, or is refused: the catch logs it.
PatchFail(k) ==
    /\ k \in DOMAIN updates
    /\ updates[k].pc = "patch"
    /\ Return(k)
    /\ lastCall' = NoCall
    /\ UNCHANGED <<db, dbLogs, dbPlanned, courses, analytics, dailyLogs,
                   plannedSessions, loading, initPc, initFetch>>
    /\ UNCHANGED <<refetch, filterVars, trackerVars, calendarVars>>

\* The backend handles the GET of call k.
Serve(k) ==
    /\ k \in DOMAIN updates
    /\ updates[k].pc \in {"courses", "analytics"}
    /\ updates[k].st = "sent"
    /\ updates' = [updates EXCEPT ![k].st = "replied",
                                  ![k].data = Reply(updates[k].pc)]
    /\ lastCall' = NoCall
    /\ UNCHANGED <<db, dbLogs, dbPlanned, courses, analytics, dailyLogs,
                   plannedSessions, loading, showCourseDetail, progress,
                   initPc, initFetch>>
    /\ UNCHANGED <<refetch, filterVars, trackerVars, calendarVars>>

\* The response arrives: fetchCourses / fetchAnalytics stores it, and
\* updateCourseProgress goes on.
Deliver(k) ==
    /\ k \in DOMAIN updates
    /\ updates[k].pc \in {"courses", "analytics"}
    /\ updates[k].st = "replied"
    /\ SetList(updates[k].pc, updates[k].data)
    /\ IF updates[k].pc = "courses" THEN Await(k, "analytics") ELSE Return(k)
    /\ lastCall' = NoCall
    /\ UNCHANGED <<db, dbLogs, dbPlanned, loading, initPc, initFetch>>
    /\ UNCHANGED <<refetch, filterVars, trackerVars, calendarVars>>

\* Mutant: the catch of a fetch resets the list it could not load.
FetchFail_ClearsList(k) ==
    /\ k \in DOMAIN updates
    /\ updates[k].pc \in {"courses", "analytics"}
    /\ SetList(updates[k].pc, NoData)
    /\ IF updates[k].pc = "courses" THEN Await(k, "analytics") ELSE Return(k)
    /\ lastCall' = NoCall
    /\ UNCHANGED <<db, dbLogs, dbPlanned, loading, initPc, initFetch>>
    /\ UNCHANGED <<refetch, filterVars, trackerVars, calendarVars>>

\* The GET fails: the fetch's own catch logs it, and updateCourseProgress
\* goes on.
FetchFail(k) ==
    /\ k \in DOMAIN updates
    /\ updates[k].pc \in {"courses", "analytics"}
    /\ IF updates[k].pc = "courses" THEN Await(k, "analytics") ELSE Return(k)
    /\ lastCall' = NoCall
    /\ UNCHANGED <<db, dbLogs, dbPlanned, courses, analytics, dailyLogs,
                   plannedSessions, loading, initPc, initFetch>>
    /\ UNCHANGED <<refetch, filterVars, trackerVars, calendarVars>>

(***************************************************************************)
(* App and CoursesView: filtering and phase grouping (part_001:97-118,     *)
(* 375, 389-391, 414-422).  The operators take the state they read as      *)
(* parameters: list is courses, ph is selectedPhase (0 for null), st is    *)
(* statusFilter and pr is priorityFilter.                                  *)
(***************************************************************************)
\* selectedPhase && ... : null and 0 are falsy.
Truthy(ph) == ph # 0

\* Mutant: the priority criterion is not applied.
FilterKeeps_IgnoresPriority(course, ph, st, pr) ==
    IF Truthy(ph) /\ course.phase # ph THEN FALSE
    ELSE IF st # "all" /\ course.status # st THEN FALSE
    ELSE TRUE

\* Mutant: a course that passes an active status criterion is kept at once.
FilterKeeps_ReturnsEarly(course, ph, st, pr) ==
    IF Truthy(ph) /\ course.phase # ph THEN FALSE
    ELSE IF st # "all" THEN course.status = st
    ELSE IF pr # "all" /\ course.priority # pr THEN FALSE
    ELSE TRUE

\* The callback of courses.filter in getFilteredCourses, part_001:98-103
FilterKeeps(course, ph, st, pr) ==
    IF Truthy(ph) /\ course.phase # ph THEN FALSE
    ELSE IF st # "all" /\ course.status # st THEN FALSE
    ELSE IF pr # "all" /\ course.priority # pr THEN FALSE
    ELSE TRUE

\* getFilteredCourses(), part_001:97-104
getFilteredCourses(list, ph, st, pr) ==
    SelectSeq(list, LAMBDA course : FilterKeeps(course, ph, st, pr))

\* Mutant: every course of a phase overwrites the phase's title.
AddToPhase_LastTitle(phases, course) ==
    IF course.phase \notin DOMAIN phases
      THEN phases @@ (course.phase :>
               [title |-> course.phase_title, courses |-> <<course>>])
      ELSE [phases EXCEPT ![course.phase] =
               [title |-> course.phase_title, courses |-> Append(@.courses, course)]]

\* The body of courses.forEach in getCoursesByPhase, part_001:108-116
AddToPhase(phases, course) ==
    IF course.phase \notin DOMAIN phases
      THEN phases @@ (course.phase :>
               [title |-> course.phase_title, courses |-> <<course>>])
      ELSE [phases EXCEPT ![course.phase].courses = Append(@, course)]

RECURSIVE GroupFrom(_, _, _)
GroupFrom(phases, list, i) ==
    IF i > Len(list) THEN phases
    ELSE GroupFrom(AddToPhase(phases, list[i]), list, i + 1)

\* getCoursesByPhase(), part_001:106-118: phase -> {title, courses}
getCoursesByPhase(list) == GroupFrom(<<>>, list, 1)

\* Mutant: the phase criterion is not applied within the phase cards.
SectionKeeps_IgnoresPhase(c, ph, st, pr) ==
    IF st # "all" /\ c.status # st THEN FALSE
    ELSE IF pr # "all" /\ c.priority # pr THEN FALSE
    ELSE TRUE

\* The callback of data.courses.filter in CoursesView, part_001:415-420
SectionKeeps(c, ph, st, pr) ==
    IF st # "all" /\ c.status # st THEN FALSE
    ELSE IF pr # "all" /\ c.priority # pr THEN FALSE
    ELSE IF Truthy(ph) /\ c.phase # ph THEN FALSE
    ELSE TRUE

\* phaseCourses of one entry of phases, part_001:415-420
PhaseCourses(data, ph, st, pr) ==
    SelectSeq(data.courses, LAMBDA c : SectionKeeps(c, ph, st, pr))

\* Object.entries(phases) visits integer keys in ascending order.
RECURSIVE Ascending(_)
Ascending(keys) ==
    IF keys = {} THEN <<>>
    ELSE LET least == CHOOSE k \in keys : \A j \in keys : k <= j
         IN <<least>> \o Ascending(keys \ {least})

RECURSIVE SectionsFrom(_, _, _, _, _)
SectionsFrom(phases, order, ph, st, pr) ==
    IF order = <<>> THEN <<>>
    ELSE LET phase == Head(order)
             phaseCourses == PhaseCourses(phases[phase], ph, st, pr)
             rest == SectionsFrom(phases, Tail(order), ph, st, pr)
         IN IF Len(phaseCourses) = 0 THEN rest  \* return null
            ELSE <<[phase |-> phase, title |-> phases[phase].title,
                    courses |-> phaseCourses]>> \o rest

\* The phase cards CoursesView renders from phases, part_001:414-447
Sections(phases, ph, st, pr) ==
    SectionsFrom(phases, Ascending(DOMAIN phases), ph, st, pr)

\* One render of CoursesView (part_000:361-362, part_001:375): the flat
\* list getFilteredCourses returns, the grouping, and the phase cards.
Render(list, ph, st, pr) ==
    LET phases == getCoursesByPhase(list)
    IN [filtered |-> getFilteredCourses(list, ph, st, pr),
        phases |-> phases,
        sections |-> Sections(phases, ph, st, pr)]

\* The PHASE select: setSelectedPhase(e.target.value ? parseInt(..) : null);
\* its options are "" and Object.keys(phases).
SetSelectedPhase(v) ==
    /\ v \in {0} \cup DOMAIN view.phases
    /\ v # selectedPhase          \* onChange fires on a change
    /\ selectedPhase' = v
    /\ view' = Render(courses, v, statusFilter, priorityFilter)
    /\ UNCHANGED <<statusFilter, priorityFilter>>
    /\ UNCHANGED <<appVars, trackerVars, calendarVars>>

\* The STATUS select: setStatusFilter(e.target.value)
SetStatusFilter(v) ==
    /\ v \in {"all"} \cup Statuses
    /\ v # statusFilter          \* onChange fires on a change
    /\ statusFilter' = v
    /\ view' = Render(courses, selectedPhase, v, priorityFilter)
    /\ UNCHANGED <<selectedPhase, priorityFilter>>
    /\ UNCHANGED <<appVars, trackerVars, calendarVars>>

\* The PRIORITY select: setPriorityFilter(e.target.value)
SetPriorityFilter(v) ==
    /\ v \in {"all"} \cup Priorities
    /\ v # priorityFilter          \* onChange fires on a change
    /\ priorityFilter' = v
    /\ view' = Render(courses, selectedPhase, statusFilter, v)
    /\ UNCHANGED <<selectedPhase, statusFilter>>
    /\ UNCHANGED <<appVars, trackerVars, calendarVars>>

(***************************************************************************)
(* The App model: the backend holds a seeded catalog, the page is loaded,  *)
(* and the user starts, completes and updates courses.                     *)
(***************************************************************************)
\* view while the courses tab is not shown.
Unrendered == [filtered |-> <<>>, phases |-> <<>>, sections |-> <<>>]

InitFilter ==
    /\ selectedPhase = 0
    /\ statusFilter = "all"
    /\ priorityFilter = "all"

InitTracker ==
    /\ selectedDate = "2026-11-05"
    /\ selectedCourses = <<>>
    /\ notes = ""
    /\ mood = 0
    /\ alertMsg = ""
    /\ posts = <<>>

\* new Date() at the time the page is used.
Today == [year |-> 2026, month |-> 10, day |-> 5]

\* The default of ESTIMATED TIME: useState(60), parseInt(..) || 60.
DefaultEstimate == 60

\* calendar while the calendar tab is not shown.
NoCalendar == [blanks |-> 0, days |-> <<>>]

\* CalendarView's useState initial values, part_001:727-732
InitCalendar ==
    /\ currentDate = [year |-> Today.year, month |-> Today.month]
    /\ showAddModal = FALSE
    /\ calendarSelectedDate = <<>>
    /\ selectedCourse = 0
    /\ estimatedTime = DefaultEstimate
    /\ planNotes = ""
    /\ sessionCalls = <<>>
    /\ plannedFetch = <<>>
    /\ dbNextId = 1
    /\ todayMonth = currentDate
    /\ monthsMoved = 0
    /\ calendar = NoCalendar

InitApp ==
    /\ courses = <<>>
    /\ analytics = <<>>
    /\ dailyLogs = <<>>
    /\ plannedSessions = <<>>
    /\ loading = TRUE
    /\ showCourseDetail = <<>>
    /\ progress = 0
    /\ initPc = "seed"
    /\ initFetch = [l \in Lists |-> [st |-> "done", data |-> NoData]]
    /\ updates = <<>>
    /\ refetch = <<>>
    /\ lastCall = NoCall

Init ==
    /\ \E pairs \in [CourseIds -> SeededPairs] :
          db = [i \in CourseIds |-> Seeded(i, pairs[i])]
    /\ dbLogs = <<>>
    /\ dbPlanned = <<>>
    /\ InitApp
    /\ InitFilter
    /\ view = Unrendered
    /\ InitTracker
    /\ InitCalendar

Next ==
    \/ SeedOk
    \/ SeedFail
    \/ \E l \in Lists : InitServe(l)
    \/ \E l \in Lists : InitDeliver(l)
    \/ \E l \in Lists : InitFail(l)
    \/ InitFinish
    \/ \E i \in CourseIds : ClickStart(i)
    \/ \E i \in CourseIds : ClickDone(i)
    \/ \E i \in CourseIds : OpenModal(i)
    \/ \E p \in SliderValues : SetProgress(p)
    \/ ClickUpdate
    \/ CloseModal
    \/ \E k \in 1..MaxCalls : PatchOk(k)
    \/ \E k \in 1..MaxCalls : PatchLost(k)
    \/ \E k \in 1..MaxCalls : PatchFail(k)
    \/ \E k \in 1..MaxCalls : Serve(k)
    \/ \E k \in 1..MaxCalls : Deliver(k)
    \/ \E k \in 1..MaxCalls : FetchFail(k)

Spec == Init /\ [][Next]_vars

\* The START button, shown on the card of a course the client holds as
\* Not Started (part_001:495-503).
CardStart(i) ==
    /\ i \in DOMAIN courses
    /\ courses[i].status = NotStarted
    /\ ClickStart(i)

\* The DONE button, shown on the card of a course the client holds as
\* In Progress (part_001:504-512).
CardDone(i) ==
    /\ i \in DOMAIN courses
    /\ courses[i].status = InProgress
    /\ ClickDone(i)

\* The page as the user can drive it: the handlers are reached through the
\* buttons the cards show.
NextCards ==
    \/ SeedOk
    \/ SeedFail
    \/ \E l \in Lists : InitServe(l)
    \/ \E l \in Lists : InitDeliver(l)
    \/ \E l \in Lists : InitFail(l)
    \/ InitFinish
    \/ \E i \in CourseIds : CardStart(i)
    \/ \E i \in CourseIds : CardDone(i)
    \/ \E i \in CourseIds : OpenModal(i)
    \/ \E p \in SliderValues : SetProgress(p)
    \/ ClickUpdate
    \/ CloseModal
    \/ \E k \in 1..MaxCalls : PatchOk(k)
    \/ \E k \in 1..MaxCalls : PatchLost(k)
    \/ \E k \in 1..MaxCalls : PatchFail(k)
    \/ \E k \in 1..MaxCalls : Serve(k)
    \/ \E k \in 1..MaxCalls : Deliver(k)
    \/ \E k \in 1..MaxCalls : FetchFail(k)

SpecCards == Init /\ [][NextCards]_vars

\* Every request of initializeApp is eventually answered or fails, and the
\* continuation of a settled promise eventually runs.
InitFairness ==
    /\ WF_vars(SeedOk \/ SeedFail)
    /\ \A l \in Lists : WF_vars(InitServe(l) \/ InitDeliver(l) \/ InitFail(l))
    /\ WF_vars(InitFinish)

SpecFair == Spec /\ InitFairness

(***************************************************************************)
(* The filter model: the courses tab is shown with some fetched course     *)
(* list, and the user sets the three filters.                              *)
(***************************************************************************)
\* The progress a course of each status carries.
ProgressOf(st) ==
    IF st = Completed THEN CompleteProgress
    ELSE IF st = InProgress THEN StartProgress ELSE 0

TitleOf(phase) == IF phase = 1 THEN "HTML" ELSE "CSS"

\* Course lists whose courses of one phase all carry that phase's title,
\* with courses that are not started or completed.
FilterKinds ==
    {k \in [phase : Phases, phase_title : PhaseTitles,
            status : {NotStarted, Completed}, priority : Priorities] :
        k.phase_title = TitleOf(k.phase)}

\* Course lists of one status and priority, with any title on any course.
GroupKinds ==
    [phase : Phases, phase_title : PhaseTitles,
     status : {NotStarted}, priority : {"MUST"}]

ListOf(kinds) ==
    [i \in DOMAIN kinds |->
        [id |-> i,
         title |-> "Course",
         phase |-> kinds[i].phase,
         phase_title |-> kinds[i].phase_title,
         priority |-> kinds[i].priority,
         status |-> kinds[i].status,
         progress |-> ProgressOf(kinds[i].status)]]

\* The App after a page load that fetched a list drawn from Kinds.
Loaded(Kinds) ==
    /\ db = [i \in CourseIds |-> Seeded(i, Unstarted)]
    /\ dbLogs = <<>>
    /\ dbPlanned = <<>>
    /\ \E n \in 0..MaxLen : \E kinds \in [1..n -> Kinds] : courses = ListOf(kinds)
    /\ analytics = <<>>
    /\ dailyLogs = <<>>
    /\ plannedSessions = <<>>
    /\ loading = FALSE
    /\ showCourseDetail = <<>>
    /\ progress = 0
    /\ initPc = "done"
    /\ initFetch = [l \in Lists |-> [st |-> "done", data |-> NoData]]
    /\ updates = <<>>
    /\ refetch = <<>>
    /\ lastCall = NoCall

InitCoursesView(Kinds) ==
    /\ Loaded(Kinds)
    /\ InitFilter
    /\ view = Render(courses, selectedPhase, statusFilter, priorityFilter)
    /\ InitTracker
    /\ InitCalendar

NextFilter ==
    \/ \E v \in {0} \cup Phases : SetSelectedPhase(v)
    \/ \E v \in {"all"} \cup Statuses : SetStatusFilter(v)
    \/ \E v \in {"all"} \cup Priorities : SetPriorityFilter(v)

SpecFilter == InitCoursesView(FilterKinds) /\ [][NextFilter]_vars

SpecGroup == InitCoursesView(GroupKinds) /\ [][NextFilter]_vars

(***************************************************************************)
(* DailyTracker (part_001:522-577, 589-595, 610-626, 657, 670) with App's  *)
(* onLogAdded (part_001:175-179).                                          *)
(***************************************************************************)
Dates == {"2026-11-04", "2026-11-05"}
NoteTexts == {"", "grid layout"}
Ratings == {3}
\* What the user types into the MINS field.
MinuteTexts == {"", "0", "30", "-5"}

\* parseInt(e.target.value) || 0
ParseIntOr0(text) ==
    CASE text = "30" -> 30
      [] text = "-5" -> -5
      [] OTHER -> 0     \* "0" parses to 0, "" to NaN: both falsy

\* courses={courses.filter(c => c.status !== 'Completed')}, part_001:173
TrackerCourses == SelectSeq(courses, LAMBDA c : c.status # Completed)

BlankEntry ==
    [course_id |-> 0, course_title |-> "", time_spent |-> 0, progress_notes |-> ""]

\* The steps of the tracker that are not handleSubmit show no alert.
Quiet ==
    /\ lastCall' = NoCall
    /\ alertMsg' = ""

\* handleAddCourse, part_001:528-530
HandleAddCourse ==
    /\ Len(selectedCourses) < MaxEntries
    /\ selectedCourses' = Append(selectedCourses, BlankEntry)
    /\ Quiet
    /\ UNCHANGED <<selectedDate, notes, mood, posts>>
    /\ UNCHANGED <<db, dbLogs, dbPlanned, courses, analytics, dailyLogs,
                   plannedSessions, loading, showCourseDetail, progress,
                   initPc, initFetch, updates, refetch, filterVars, calendarVars>>

\* handleUpdateCourse(index, field, value), part_001:532-542.  course_id 0
\* is the empty value of SELECT COURSE...
HandleUpdateCourse(index, field, value) ==
    LET updated == [selectedCourses EXCEPT ![index][field] = value]
        found == {j \in DOMAIN TrackerCourses : TrackerCourses[j].id = value}
    IN /\ selectedCourses' =
              IF field = "course_id" /\ value # 0 /\ found # {}
                THEN [updated EXCEPT ![index].course_title =
                          TrackerCourses[CHOOSE j \in found :
                                             \A h \in found : j <= h].title]
                ELSE updated
       /\ Quiet
       /\ UNCHANGED <<selectedDate, notes, mood, posts>>
       /\ UNCHANGED <<db, dbLogs, dbPlanned, courses, analytics, dailyLogs,
                      plannedSessions, loading, showCourseDetail, progress,
                      initPc, initFetch, updates, refetch, filterVars, calendarVars>>

\* The course select of entry index, part_001:610-619
SelectCourse(index, id) ==
    /\ index \in DOMAIN selectedCourses
    /\ id \in {0} \cup {TrackerCourses[j].id : j \in DOMAIN TrackerCourses}
    /\ id # selectedCourses[index].course_id
    /\ HandleUpdateCourse(index, "course_id", id)

\* The MINS field of entry index, part_001:620-626
TypeMinutes(index, text) ==
    /\ index \in DOMAIN selectedCourses
    /\ text \in MinuteTexts
    /\ HandleUpdateCourse(index, "time_spent", ParseIntOr0(text))

\* handleRemoveCourse(index), part_001:544-546
HandleRemoveCourse(index) ==
    /\ index \in DOMAIN selectedCourses
    /\ selectedCourses' = RemoveAt(selectedCourses, index)
    /\ Quiet
    /\ UNCHANGED <<selectedDate, notes, mood, posts>>
    /\ UNCHANGED <<db, dbLogs, dbPlanned, courses, analytics, dailyLogs,
                   plannedSessions, loading, showCourseDetail, progress,
                   initPc, initFetch, updates, refetch, filterVars, calendarVars>>

\* setSelectedDate / setNotes / setMood
SetSelectedDate(d) ==
    /\ d \in Dates
    /\ d # selectedDate
    /\ selectedDate' = d
    /\ Quiet
    /\ UNCHANGED <<selectedCourses, notes, mood, posts>>
    /\ UNCHANGED <<db, dbLogs, dbPlanned, courses, analytics, dailyLogs,
                   plannedSessions, loading, showCourseDetail, progress,
                   initPc, initFetch, updates, refetch, filterVars, calendarVars>>

SetNotes(text) ==
    /\ text \in NoteTexts
    /\ text # notes
    /\ notes' = text
    /\ Quiet
    /\ UNCHANGED <<selectedDate, selectedCourses, mood, posts>>
    /\ UNCHANGED <<db, dbLogs, dbPlanned, courses, analytics, dailyLogs,
                   plannedSessions, loading, showCourseDetail, progress,
                   initPc, initFetch, updates, refetch, filterVars, calendarVars>>

SetMood(rating) ==
    /\ rating \in Ratings
    /\ rating # mood
    /\ mood' = rating
    /\ Quiet
    /\ UNCHANGED <<selectedDate, selectedCourses, notes, posts>>
    /\ UNCHANGED <<db, dbLogs, dbPlanned, courses, analytics, dailyLogs,
                   plannedSessions, loading, showCourseDetail, progress,
                   initPc, initFetch, updates, refetch, filterVars, calendarVars>>

\* Mutant: the course_id test is missing.
ValidCourses_IgnoresCourse(entries) ==
    SelectSeq(entries, LAMBDA c : c.time_spent > 0)

\* Mutant: time_spent >= 0 instead of time_spent > 0.
ValidCourses_ZeroAllowed(entries) ==
    SelectSeq(entries, LAMBDA c : c.course_id # 0 /\ c.time_spent >= 0)

\* selectedCourses.filter(c => c.course_id && c.time_spent > 0), part_001:554
ValidCourses(entries) ==
    SelectSeq(entries, LAMBDA c : c.course_id # 0 /\ c.time_spent > 0)

\* handleSubmit up to its await, part_001:548-566: an alert and return, or
\* the POST of the valid entries.  At most cap logs are submitted.
HandleSubmitUpTo(cap) ==
    /\ IF Len(selectedCourses) = 0
         THEN /\ alertMsg' = "ADD AT LEAST ONE COURSE"
              /\ lastCall' = [op |-> "submit", id |-> 0, was |-> "", sent |-> FALSE]
              /\ UNCHANGED posts
         ELSE IF Len(ValidCourses(selectedCourses)) = 0
           THEN /\ alertMsg' = "SELECT COURSES AND ADD TIME"
                /\ lastCall' = [op |-> "submit", id |-> 0, was |-> "", sent |-> FALSE]
                /\ UNCHANGED posts
           ELSE /\ Len(posts) + Len(refetch) < MaxPosts
                /\ Len(posts) + Len(dbLogs) < cap
                /\ posts' = Append(posts,
                       [date |-> selectedDate,
                        courses |-> ValidCourses(selectedCourses),
                        notes |-> notes,
                        mood |-> mood])
                /\ alertMsg' = ""
                /\ lastCall' = [op |-> "submit", id |-> 0, was |-> "", sent |-> TRUE]
    /\ UNCHANGED <<selectedDate, selectedCourses, notes, mood>>
    /\ UNCHANGED <<db, dbLogs, dbPlanned, courses, analytics, dailyLogs,
                   plannedSessions, loading, showCourseDetail, progress,
                   initPc, initFetch, updates, refetch, filterVars, calendarVars>>

HandleSubmit == HandleSubmitUpTo(MaxLogs)

RECURSIVE SumTime(_)
SumTime(entries) ==
    IF entries = <<>> THEN 0 ELSE Head(entries).time_spent + SumTime(Tail(entries))

\* Mutant: the log of a day replaces the logs the day already has.
StoreLog_ReplacesDay(logs, body) ==
    Append(SelectSeq(logs, LAMBDA g : g.date # body.date),
           [date |-> body.date, courses |-> body.courses,
            notes |-> body.notes, mood |-> body.mood,
            total_time_spent |-> SumTime(body.courses)])

\* POST /api/logs at the backend: the log is stored with its total.
StoreLog(logs, body) ==
    Append(logs, [date |-> body.date, courses |-> body.courses,
                  notes |-> body.notes, mood |-> body.mood,
                  total_time_spent |-> SumTime(body.courses)])

RefetchLists == {"logs", "courses", "analytics"}

\* Mutant: onLogAdded awaits each fetch; only fetchDailyLogs is issued when
\* the POST is answered.
PostOk_AwaitsEach(k) ==
    /\ k \in DOMAIN posts
    /\ dbLogs' = StoreLog(dbLogs, posts[k])
    /\ posts' = RemoveAt(posts, k)
    /\ selectedCourses' = <<>>
    /\ notes' = ""
    /\ mood' = 0
    /\ refetch' = Append(refetch,
           [l \in RefetchLists |->
               IF l = "logs" THEN [st |-> "sent", data |-> NoData]
               ELSE [st |-> "waiting", data |-> NoData]])
    /\ alertMsg' = "LOG SAVED!"
    /\ lastCall' = NoCall
    /\ UNCHANGED selectedDate
    /\ UNCHANGED <<db, dbPlanned, courses, analytics, dailyLogs,
                   plannedSessions, loading, showCourseDetail, progress,
                   initPc, initFetch, updates, filterVars, calendarVars>>

\* The POST is answered: the form is reset, onLogAdded issues its three
\* fetches without awaiting them, and LOG SAVED! is shown (part_001:568-572).
PostOk(k) ==
    /\ k \in DOMAIN posts
    /\ dbLogs' = StoreLog(dbLogs, posts[k])
    /\ posts' = RemoveAt(posts, k)
    /\ selectedCourses' = <<>>
    /\ notes' = ""
    /\ mood' = 0
    /\ refetch' = Append(refetch,
           [l \in RefetchLists |-> [st |-> "sent", data |-> NoData]])
    /\ alertMsg' = "LOG SAVED!"
    /\ lastCall' = NoCall
    /\ UNCHANGED selectedDate
    /\ UNCHANGED <<db, dbPlanned, courses, analytics, dailyLogs,
                   plannedSessions, loading, showCourseDetail, progress,
                   initPc, initFetch, updates, filterVars, calendarVars>>

\* Mutant: the form is reset before the await, so also when the POST fails.
PostFail_ResetsForm(k, stored) ==
    /\ k \in DOMAIN posts
    /\ dbLogs' = IF stored THEN StoreLog(dbLogs, posts[k]) ELSE dbLogs
    /\ posts' = RemoveAt(posts, k)
    /\ selectedCourses' = <<>>
    /\ notes' = ""
    /\ mood' = 0
    /\ alertMsg' = "ERROR SAVING LOG"
    /\ lastCall' = NoCall
    /\ UNCHANGED selectedDate
    /\ UNCHANGED <<db, dbPlanned, courses, analytics, dailyLogs,
                   plannedSessions, loading, showCourseDetail, progress,
                   initPc, initFetch, updates, refetch, filterVars, calendarVars>>

\* The POST fails, before or after the backend stored the log: the catch
\* shows ERROR SAVING LOG (part_001:573-576).
PostFail(k, stored) ==
    /\ k \in DOMAIN posts
    /\ dbLogs' = IF stored THEN StoreLog(dbLogs, posts[k]) ELSE dbLogs
    /\ posts' = RemoveAt(posts, k)
    /\ alertMsg' = "ERROR SAVING LOG"
    /\ lastCall' = NoCall
    /\ UNCHANGED <<selectedDate, selectedCourses, notes, mood>>
    /\ UNCHANGED <<db, dbPlanned, courses, analytics, dailyLogs,
                   plannedSessions, loading, showCourseDetail, progress,
                   initPc, initFetch, updates, refetch, filterVars, calendarVars>>

\* A batch all of whose fetches have returned is dropped.
Settle(batches, b) ==
    IF \A l \in RefetchLists : batches[b][l].st = "done"
      THEN RemoveAt(batches, b) ELSE batches

\* The backend handles one GET of batch b.
RefetchServe(b, l) ==
    /\ b \in DOMAIN refetch
    /\ l \in RefetchLists
    /\ refetch[b][l].st = "sent"
    /\ refetch' = [refetch EXCEPT ![b][l] = [st |-> "replied", data |-> Reply(l)]]
    /\ Quiet
    /\ UNCHANGED <<selectedDate, selectedCourses, notes, mood, posts>>
    /\ UNCHANGED <<db, dbLogs, dbPlanned, courses, analytics, dailyLogs,
                   plannedSessions, loading, showCourseDetail, progress,
                   initPc, initFetch, updates, filterVars, calendarVars>>

\* Mutant: a response that no longer agrees with the backend is dropped.
RefetchDeliver_SkipsStale(b, l) ==
    /\ b \in DOMAIN refetch
    /\ l \in RefetchLists
    /\ refetch[b][l].st = "replied"
    /\ IF refetch[b][l].data = Reply(l)
         THEN SetList(l, refetch[b][l].data)
         ELSE UNCHANGED <<courses, analytics, dailyLogs, plannedSessions>>
    /\ refetch' = Settle([refetch EXCEPT ![b][l] =
                             [st |-> "done", data |-> NoData]], b)
    /\ Quiet
    /\ UNCHANGED <<selectedDate, selectedCourses, notes, mood, posts>>
    /\ UNCHANGED <<db, dbLogs, dbPlanned, loading, showCourseDetail, progress,
                   initPc, initFetch, updates, filterVars, calendarVars>>

\* The response arrives: the fetch stores it.
RefetchDeliver(b, l) ==
    /\ b \in DOMAIN refetch
    /\ l \in RefetchLists
    /\ refetch[b][l].st = "replied"
    /\ SetList(l, refetch[b][l].data)
    /\ refetch' = Settle([refetch EXCEPT ![b][l] =
                             [st |-> "done", data |-> NoData]], b)
    /\ Quiet
    /\ UNCHANGED <<selectedDate, selectedCourses, notes, mood, posts>>
    /\ UNCHANGED <<db, dbLogs, dbPlanned, loading, showCourseDetail, progress,
                   initPc, initFetch, updates, filterVars, calendarVars>>

\* The GET fails: the fetch's own catch logs it and keeps the list.
RefetchFail(b, l) ==
    /\ b \in DOMAIN refetch
    /\ l \in RefetchLists
    /\ refetch[b][l].st \in {"sent", "replied"}
    /\ refetch' = Settle([refetch EXCEPT ![b][l] =
                             [st |-> "done", data |-> NoData]], b)
    /\ Quiet
    /\ UNCHANGED <<selectedDate, selectedCourses, notes, mood, posts>>
    /\ UNCHANGED <<db, dbLogs, dbPlanned, courses, analytics, dailyLogs,
                   plannedSessions, loading, showCourseDetail, progress,
                   initPc, initFetch, updates, filterVars, calendarVars>>

(***************************************************************************)
(* The tracker model: the page has loaded, the daily tracker tab is shown, *)
(* and the user fills in and submits the form.                             *)
(***************************************************************************)
InitLog ==
    /\ db = [i \in CourseIds |-> Seeded(i, Unstarted)]
    /\ dbLogs = <<>>
    /\ dbPlanned = <<>>
    /\ courses = CourseList(db)
    /\ analytics = <<Summary(db)>>
    /\ dailyLogs = <<>>
    /\ plannedSessions = <<>>
    /\ loading = FALSE
    /\ showCourseDetail = <<>>
    /\ progress = 0
    /\ initPc = "done"
    /\ initFetch = [l \in Lists |-> [st |-> "done", data |-> NoData]]
    /\ updates = <<>>
    /\ refetch = <<>>
    /\ lastCall = NoCall
    /\ InitFilter
    /\ view = Unrendered
    /\ selectedDate = "2026-11-05"  \* new Date().toISOString().split('T')[0]
    /\ selectedCourses = <<>>
    /\ notes = ""
    /\ mood = 0
    /\ alertMsg = ""
    /\ posts = <<>>
    /\ InitCalendar

NextLog ==
    \/ HandleAddCourse
    \/ \E i \in 1..MaxEntries : \E id \in {0} \cup CourseIds : SelectCourse(i, id)
    \/ \E i \in 1..MaxEntries : \E text \in MinuteTexts : TypeMinutes(i, text)
    \/ \E i \in 1..MaxEntries : HandleRemoveCourse(i)
    \/ \E d \in Dates : SetSelectedDate(d)
    \/ \E text \in NoteTexts : SetNotes(text)
    \/ \E rating \in Ratings : SetMood(rating)
    \/ HandleSubmit
    \/ \E k \in 1..MaxPosts : PostOk(k)
    \/ \E k \in 1..MaxPosts : \E stored \in BOOLEAN : PostFail(k, stored)
    \/ \E b \in 1..MaxPosts : \E l \in RefetchLists : RefetchServe(b, l)
    \/ \E b \in 1..MaxPosts : \E l \in RefetchLists : RefetchDeliver(b, l)
    \/ \E b \in 1..MaxPosts : \E l \in RefetchLists : RefetchFail(b, l)

SpecLog == InitLog /\ [][NextLog]_vars

(***************************************************************************)
(* The tab-switch model: the user has pressed DONE on the card of an       *)
(* In Progress course and moved to the daily tracker tab while the         *)
(* request of updateCourseProgress is in flight.                           *)
(***************************************************************************)
InitSwitch ==
    /\ db = [i \in CourseIds |->
                Seeded(i, [progress |-> StartProgress, status |-> InProgress])]
    /\ dbLogs = <<>>
    /\ dbPlanned = <<>>
    /\ courses = CourseList(db)
    /\ analytics = <<Summary(db)>>
    /\ dailyLogs = <<>>
    /\ plannedSessions = <<>>
    /\ loading = FALSE
    /\ showCourseDetail = <<>>
    /\ progress = 0
    /\ initPc = "done"
    /\ initFetch = [l \in Lists |-> [st |-> "done", data |-> NoData]]
    /\ updates = <<[id |-> 1, progress |-> CompleteProgress,
                    status |-> Completed, close |-> FALSE,
                    pc |-> "patch", st |-> "sent", data |-> NoData]>>
    /\ refetch = <<>>
    /\ lastCall = NoCall
    /\ InitFilter
    /\ view = Unrendered
    /\ InitTracker
    /\ InitCalendar

NextSwitch ==
    \/ HandleAddCourse
    \/ \E id \in {0} \cup CourseIds : SelectCourse(1, id)
    \/ \E text \in MinuteTexts : TypeMinutes(1, text)
    \/ HandleRemoveCourse(1)
    \/ HandleSubmit
    \/ \E k \in 1..MaxPosts : PostOk(k)
    \/ \E k \in 1..MaxPosts : \E stored \in BOOLEAN : PostFail(k, stored)
    \/ \E b \in 1..MaxPosts : \E l \in RefetchLists : RefetchServe(b, l)
    \/ \E b \in 1..MaxPosts : \E l \in RefetchLists : RefetchDeliver(b, l)
    \/ \E b \in 1..MaxPosts : \E l \in RefetchLists : RefetchFail(b, l)
    \/ \E k \in 1..MaxCalls : PatchOk(k)
    \/ \E k \in 1..MaxCalls : PatchLost(k)
    \/ \E k \in 1..MaxCalls : PatchFail(k)
    \/ \E k \in 1..MaxCalls : Serve(k)
    \/ \E k \in 1..MaxCalls : Deliver(k)
    \/ \E k \in 1..MaxCalls : FetchFail(k)

SpecSwitch == InitSwitch /\ [][NextSwitch]_vars

(***************************************************************************)
(* The resubmission model: the tracker as above, with one entry of 30      *)
(* minutes at a time, no mood, and one log more than above.                *)
(***************************************************************************)
NextAppend ==
    \/ HandleAddCourse
    \/ \E id \in CourseIds : SelectCourse(1, id)
    \/ TypeMinutes(1, "30")
    \/ HandleRemoveCourse(1)
    \/ \E d \in Dates : SetSelectedDate(d)
    \/ \E text \in NoteTexts : SetNotes(text)
    \/ HandleSubmitUpTo(MaxLogs + 1)
    \/ \E k \in 1..MaxPosts : PostOk(k)
    \/ \E k \in 1..MaxPosts : \E stored \in BOOLEAN : PostFail(k, stored)
    \/ \E b \in 1..MaxPosts : \E l \in RefetchLists : RefetchServe(b, l)
    \/ \E b \in 1..MaxPosts : \E l \in RefetchLists : RefetchDeliver(b, l)
    \/ \E b \in 1..MaxPosts : \E l \in RefetchLists : RefetchFail(b, l)

SpecAppend == InitLog /\ [][NextAppend]_vars

(***************************************************************************)
(* CalendarView: the month grid (part_001:734-749, 797-817, 837-861).      *)
(* Dates are computed the way the Date object computes them: a date is a   *)
(* number of days since 1970-01-01, in local time.                         *)
(***************************************************************************)
MaxNav == 2            \* months the user moves away from the month of today
MaxShown == 2          \* longest log list and session list drawn for the grid

\* ECMAScript DaysInYear, DayFromYear, InLeapYear
DaysInYear(y) ==
    IF y % 4 # 0 THEN 365
    ELSE IF y % 100 # 0 THEN 366
    ELSE IF y % 400 # 0 THEN 365 ELSE 366

DayFromYear(y) ==
    365 * (y - 1970) + ((y - 1969) \div 4) - ((y - 1901) \div 100)
                     + ((y - 1601) \div 400)

InLeapYear(y) == DaysInYear(y) = 366

\* The day within the year on which month mn (0-based) starts; month 12 is
\* the end of the year.
MonthStart(mn, y) ==
    LET common == <<0, 31, 59, 90, 120, 151, 181, 212, 243, 273, 304, 334, 365>>
    IN common[mn + 1] + (IF InLeapYear(y) /\ mn >= 2 THEN 1 ELSE 0)

\* ECMAScript MakeDay: month and date may lie outside their ranges.
MakeDay(year, month, date) ==
    LET ym == year + (month \div 12)
        mn == month % 12
    IN DayFromYear(ym) + MonthStart(mn, ym) + date - 1

\* ECMAScript WeekDay: 1970-01-01 was a Thursday; 0 is Sunday.
WeekDay(day) == (day + 4) % 7

\* ECMAScript YearFromTime, MonthFromTime, DateFromTime
YearFromDay(day) ==
    LET guess == 1970 + (day \div 365)
    IN CHOOSE y \in (guess - 2)..(guess + 2) :
           DayFromYear(y) <= day /\ day < DayFromYear(y + 1)

MonthFromDay(day) ==
    LET y == YearFromDay(day)
        within == day - DayFromYear(y)
    IN CHOOSE mn \in 0..11 :
           MonthStart(mn, y) <= within /\ within < MonthStart(mn + 1, y)

DateFromDay(day) ==
    LET y == YearFromDay(day)
    IN day - DayFromYear(y) - MonthStart(MonthFromDay(day), y) + 1

\* new Date(year, month): the first day of the month, normalised.
NewDate(year, month) ==
    LET day == MakeDay(year, month, 1)
    IN [year |-> YearFromDay(day), month |-> MonthFromDay(day)]

\* Mutant: the last day is taken as day 0 of the month itself.
getDaysInMonth_OffByOne(date) ==
    [daysInMonth |-> DateFromDay(MakeDay(date.year, date.month, 0)),
     startingDayOfWeek |-> WeekDay(MakeDay(date.year, date.month, 1))]

\* getDaysInMonth(date), part_001:734-743
getDaysInMonth(date) ==
    LET firstDay == MakeDay(date.year, date.month, 1)
        lastDay == MakeDay(date.year, date.month + 1, 0)
    IN [daysInMonth |-> DateFromDay(lastDay),
        startingDayOfWeek |-> WeekDay(firstDay)]

\* String(n).padStart(2, '0')
PadStart2(n) ==
    IF Len(ToString(n)) < 2 THEN "0" \o ToString(n) ELSE ToString(n)

\* `${getFullYear()}-${String(getMonth() + 1).padStart(2, '0')}-${String(day)
\* .padStart(2, '0')}`, part_001:842
DateStr(date, day) ==
    ToString(date.year) \o "-" \o PadStart2(date.month + 1) \o "-" \o PadStart2(day)

\* Mutant: the last log of the date instead of the first.
getActivityForDate_LastLog(dateStr, logs, planned) ==
    LET hits == {i \in DOMAIN logs : logs[i].date = dateStr}
    IN [log |-> IF hits = {} THEN <<>>
                ELSE <<logs[CHOOSE i \in hits : \A j \in hits : j <= i]>>,
        planned |-> SelectSeq(planned, LAMBDA q : q.planned_date = dateStr)]

\* getActivityForDate(dateStr), part_001:745-749: find gives the first
\* match or undefined (<<>>), filter every match.
getActivityForDate(dateStr, logs, planned) ==
    LET hits == {i \in DOMAIN logs : logs[i].date = dateStr}
    IN [log |-> IF hits = {} THEN <<>>
                ELSE <<logs[CHOOSE i \in hits : \A j \in hits : i <= j]>>,
        planned |-> SelectSeq(planned, LAMBDA q : q.planned_date = dateStr)]

\* The grid CalendarView renders, part_001:837-861: startingDayOfWeek blank
\* cells, then a cell per day.
RenderCalendar(date, logs, planned) ==
    LET month == getDaysInMonth(date)
    IN [blanks |-> month.startingDayOfWeek,
        days |-> [i \in 1..month.daysInMonth |->
                     LET dateStr == DateStr(date, i)
                         activity == getActivityForDate(dateStr, logs, planned)
                     IN [day |-> i, dateStr |-> dateStr,
                         log |-> activity.log, planned |-> activity.planned]]]

\* The steps of the calendar that show no alert.
Silent ==
    /\ lastCall' = NoCall
    /\ alertMsg' = ""
    /\ UNCHANGED <<selectedDate, selectedCourses, notes, mood, posts>>

\* Mutant: the month wraps around within the year shown.
MoveMonth_NoCarry(n) ==
    /\ ~showAddModal
    /\ monthsMoved + n \in (0 - MaxNav)..MaxNav
    /\ currentDate' = [year |-> currentDate.year,
                       month |-> (currentDate.month + n) % 12]
    /\ monthsMoved' = monthsMoved + n
    /\ calendar' = RenderCalendar(currentDate', dailyLogs, plannedSessions)
    /\ Silent
    /\ UNCHANGED <<showAddModal, calendarSelectedDate, selectedCourse,
                   estimatedTime, planNotes, sessionCalls, plannedFetch,
                   dbNextId, todayMonth>>
    /\ UNCHANGED <<appVars, filterVars>>

\* PREV and NEXT: setCurrentDate(new Date(getFullYear(), getMonth() -/+ 1)),
\* part_001:797-817.  The overlay of the add modal covers the buttons.
MoveMonth(n) ==
    /\ ~showAddModal
    /\ monthsMoved + n \in (0 - MaxNav)..MaxNav
    /\ currentDate' = NewDate(currentDate.year, currentDate.month + n)
    /\ monthsMoved' = monthsMoved + n
    /\ calendar' = RenderCalendar(currentDate', dailyLogs, plannedSessions)
    /\ Silent
    /\ UNCHANGED <<showAddModal, calendarSelectedDate, selectedCourse,
                   estimatedTime, planNotes, sessionCalls, plannedFetch,
                   dbNextId, todayMonth>>
    /\ UNCHANGED <<appVars, filterVars>>

PrevMonth == MoveMonth(-1)

NextMonth == MoveMonth(1)

\* TODAY: setCurrentDate(new Date())
GoToday ==
    /\ ~showAddModal
    /\ currentDate' = todayMonth
    /\ monthsMoved' = 0
    /\ calendar' = RenderCalendar(currentDate', dailyLogs, plannedSessions)
    /\ Silent
    /\ UNCHANGED <<showAddModal, calendarSelectedDate, selectedCourse,
                   estimatedTime, planNotes, sessionCalls, plannedFetch,
                   dbNextId, todayMonth>>
    /\ UNCHANGED <<appVars, filterVars>>

(***************************************************************************)
(* The grid model: the calendar tab is shown in some month, with some      *)
(* fetched logs and planned sessions, and the user moves between months.   *)
(***************************************************************************)
\* Years with and without a leap day, and a century year of either kind.
GridYears == {1900, 2000, 2026, 2028}

\* The dates the drawn logs and sessions carry.
GridDates == {"2026-11-05", "2026-11-30"}

\* A log and a session as GET /api/logs and GET /api/planned return them;
\* the position tells two of the same date apart.
GridLog(i, date) ==
    [date |-> date,
     courses |-> <<[course_id |-> 1, course_title |-> "HTML Basics",
                    time_spent |-> 30 * i, progress_notes |-> ""]>>,
     notes |-> "", mood |-> 0, total_time_spent |-> 30 * i]

GridSession(i, date) ==
    [id |-> i, course_id |-> 1, course_title |-> "HTML Basics",
     planned_date |-> date, estimated_time |-> DefaultEstimate, notes |-> ""]

InitGrid ==
    /\ db = [i \in CourseIds |-> Seeded(i, Unstarted)]
    /\ \E n \in 0..MaxShown : \E dates \in [1..n -> GridDates] :
           dbLogs = [i \in 1..n |-> GridLog(i, dates[i])]
    /\ \E n \in 0..MaxShown : \E dates \in [1..n -> GridDates] :
           dbPlanned = [i \in 1..n |-> GridSession(i, dates[i])]
    /\ courses = CourseList(db)
    /\ analytics = <<Summary(db)>>
    /\ dailyLogs = dbLogs
    /\ plannedSessions = dbPlanned
    /\ loading = FALSE
    /\ showCourseDetail = <<>>
    /\ progress = 0
    /\ initPc = "done"
    /\ initFetch = [l \in Lists |-> [st |-> "done", data |-> NoData]]
    /\ updates = <<>>
    /\ refetch = <<>>
    /\ lastCall = NoCall
    /\ InitFilter
    /\ view = Unrendered
    /\ InitTracker
    /\ todayMonth \in [year : GridYears, month : 0..11]
    /\ currentDate = todayMonth
    /\ monthsMoved = 0
    /\ showAddModal = FALSE
    /\ calendarSelectedDate = <<>>
    /\ selectedCourse = 0
    /\ estimatedTime = DefaultEstimate
    /\ planNotes = ""
    /\ sessionCalls = <<>>
    /\ plannedFetch = <<>>
    /\ dbNextId = Len(dbPlanned) + 1
    /\ calendar = RenderCalendar(currentDate, dailyLogs, plannedSessions)

NextGrid ==
    \/ PrevMonth
    \/ NextMonth
    \/ GoToday

SpecGrid == InitGrid /\ [][NextGrid]_vars

(***************************************************************************)
(* CalendarView: planning and deleting sessions (part_001:751-786,         *)
(* 848-853, 880-912, 925-1000) with App's onSessionAdded and               *)
(* onSessionDeleted (part_001:187-188).                                    *)
(***************************************************************************)
MaxSessions == 1       \* planned sessions the user comes to add
MaxWrites == 1         \* session requests and their fetches in flight at once

ClickDays == {4, 5}    \* the day cells the user clicks: yesterday and today
EstimateTexts == {"", "30"}
PlanTexts == {"", "flexbox"}

\* new Date().toISOString().split('T')[0]
TodayStr == DateStr(Today, Today.day)

\* The date strings of the months the calendar can show.
ShownDates ==
    LET shown == {NewDate(Today.year, Today.month + n) :
                     n \in (0 - MaxNav)..MaxNav}
    IN [c \in shown \X (1..31) |-> DateStr(c[1], c[2])]

\* The day number of one of these date strings.
DayOf(dateStr) ==
    LET at == CHOOSE c \in DOMAIN ShownDates : ShownDates[c] = dateStr
    IN MakeDay(at[1].year, at[1].month, at[2])

\* plannedSessions.filter(s => s.planned_date >= today).slice(0, 10),
\* part_001:888-890; ISO date strings compare as their dates do.
Upcoming(sessions) ==
    LET later == SelectSeq(sessions,
                     LAMBDA q : DayOf(q.planned_date) >= DayOf(TodayStr))
    IN SubSeq(later, 1, IF Len(later) < 10 THEN Len(later) ELSE 10)

NoBody == [course_id |-> 0, planned_date |-> "", estimated_time |-> 0, notes |-> ""]

\* POST /api/planned and DELETE /api/planned/{id} at the backend.
StoreSession(sessions, body, id) ==
    Append(sessions,
           [id |-> id, course_id |-> body.course_id,
            course_title |-> Catalog[body.course_id].title,
            planned_date |-> body.planned_date,
            estimated_time |-> body.estimated_time, notes |-> body.notes])

DropSession(sessions, id) == SelectSeq(sessions, LAMBDA q : q.id # id)

\* What the calendar steps other than the month buttons leave alone.
CalendarStays ==
    /\ UNCHANGED <<currentDate, todayMonth, monthsMoved>>
    /\ UNCHANGED <<selectedDate, selectedCourses, notes, mood, posts>>
    /\ UNCHANGED <<db, dbLogs, courses, analytics, dailyLogs, loading,
                   showCourseDetail, progress, initPc, initFetch, updates,
                   refetch, filterVars>>

\* A click on a day cell: setSelectedDate(dateStr); setShowAddModal(true)
ClickDay(day) ==
    /\ ~showAddModal
    /\ day \in ClickDays \cap DOMAIN calendar.days
    /\ calendarSelectedDate' = <<calendar.days[day].dateStr>>
    /\ showAddModal' = TRUE
    /\ lastCall' = NoCall
    /\ alertMsg' = ""
    /\ CalendarStays
    /\ UNCHANGED <<selectedCourse, estimatedTime, planNotes, sessionCalls,
                   plannedFetch, dbNextId, dbPlanned, plannedSessions, calendar>>

\* A click on the overlay or on CANCEL: setShowAddModal(false)
CloseAddModal ==
    /\ showAddModal
    /\ showAddModal' = FALSE
    /\ lastCall' = NoCall
    /\ alertMsg' = ""
    /\ CalendarStays
    /\ UNCHANGED <<calendarSelectedDate, selectedCourse, estimatedTime,
                   planNotes, sessionCalls, plannedFetch, dbNextId, dbPlanned,
                   plannedSessions, calendar>>

\* The COURSE select of the modal: the courses that are not Completed.
SetSelectedCourse(id) ==
    /\ showAddModal
    /\ id \in {0} \cup {courses[j].id : j \in {h \in DOMAIN courses :
                                                 courses[h].status # Completed}}
    /\ id # selectedCourse
    /\ selectedCourse' = id
    /\ lastCall' = NoCall
    /\ alertMsg' = ""
    /\ CalendarStays
    /\ UNCHANGED <<showAddModal, calendarSelectedDate, estimatedTime,
                   planNotes, sessionCalls, plannedFetch, dbNextId, dbPlanned,
                   plannedSessions, calendar>>

\* The ESTIMATED TIME input: setEstimatedTime(parseInt(e.target.value) || 60)
SetEstimatedTime(text) ==
    /\ showAddModal
    /\ text \in EstimateTexts
    /\ estimatedTime' = IF ParseIntOr0(text) = 0 THEN DefaultEstimate
                        ELSE ParseIntOr0(text)
    /\ lastCall' = NoCall
    /\ alertMsg' = ""
    /\ CalendarStays
    /\ UNCHANGED <<showAddModal, calendarSelectedDate, selectedCourse,
                   planNotes, sessionCalls, plannedFetch, dbNextId, dbPlanned,
                   plannedSessions, calendar>>

\* The NOTES textarea: setPlanNotes(e.target.value)
SetPlanNotes(text) ==
    /\ showAddModal
    /\ text \in PlanTexts
    /\ text # planNotes
    /\ planNotes' = text
    /\ lastCall' = NoCall
    /\ alertMsg' = ""
    /\ CalendarStays
    /\ UNCHANGED <<showAddModal, calendarSelectedDate, selectedCourse,
                   estimatedTime, sessionCalls, plannedFetch, dbNextId,
                   dbPlanned, plannedSessions, calendar>>

\* Mutant: the course is not required.
HandleAddSession_DateOnly ==
    /\ showAddModal
    /\ IF calendarSelectedDate = <<>>
         THEN /\ alertMsg' = "SELECT COURSE AND DATE"
              /\ lastCall' = [op |-> "addSession", id |-> 0, was |-> "",
                              sent |-> FALSE]
              /\ UNCHANGED sessionCalls
         ELSE /\ dbNextId - 1 + Len(sessionCalls) < MaxSessions
              /\ Len(sessionCalls) + Len(plannedFetch) < MaxWrites
              /\ sessionCalls' = Append(sessionCalls,
                     [op |-> "add", id |-> 0,
                      body |-> [course_id |-> selectedCourse,
                                planned_date |-> calendarSelectedDate[1],
                                estimated_time |-> estimatedTime,
                                notes |-> planNotes]])
              /\ alertMsg' = ""
              /\ lastCall' = [op |-> "addSession", id |-> 0, was |-> "",
                              sent |-> TRUE]
    /\ CalendarStays
    /\ UNCHANGED <<showAddModal, calendarSelectedDate, selectedCourse,
                   estimatedTime, planNotes, plannedFetch, dbNextId, dbPlanned,
                   plannedSessions, calendar>>

\* handleAddSession up to its await, part_001:751-763: an alert and return,
\* or the POST.  ADD SESSION is a button of the modal.
HandleAddSession ==
    /\ showAddModal
    /\ IF selectedCourse = 0 \/ calendarSelectedDate = <<>>
         THEN /\ alertMsg' = "SELECT COURSE AND DATE"
              /\ lastCall' = [op |-> "addSession", id |-> 0, was |-> "",
                              sent |-> FALSE]
              /\ UNCHANGED sessionCalls
         ELSE /\ dbNextId - 1 + Len(sessionCalls) < MaxSessions
              /\ Len(sessionCalls) + Len(plannedFetch) < MaxWrites
              /\ sessionCalls' = Append(sessionCalls,
                     [op |-> "add", id |-> 0,
                      body |-> [course_id |-> selectedCourse,
                                planned_date |-> calendarSelectedDate[1],
                                estimated_time |-> estimatedTime,
                                notes |-> planNotes]])
              /\ alertMsg' = ""
              /\ lastCall' = [op |-> "addSession", id |-> 0, was |-> "",
                              sent |-> TRUE]
    /\ CalendarStays
    /\ UNCHANGED <<showAddModal, calendarSelectedDate, selectedCourse,
                   estimatedTime, planNotes, plannedFetch, dbNextId, dbPlanned,
                   plannedSessions, calendar>>

\* fetchPlannedSessions() of onSessionAdded / onSessionDeleted is issued.
IssuePlannedFetch ==
    plannedFetch' = Append(plannedFetch, [st |-> "sent", data |-> NoData])

\* The POST is answered: the modal closes, the form is reset,
\* onSessionAdded issues its fetch, SESSION PLANNED! is shown
\* (part_001:765-770).
AddOk(k) ==
    /\ k \in DOMAIN sessionCalls
    /\ sessionCalls[k].op = "add"
    /\ dbPlanned' = StoreSession(dbPlanned, sessionCalls[k].body, dbNextId)
    /\ dbNextId' = dbNextId + 1
    /\ sessionCalls' = RemoveAt(sessionCalls, k)
    /\ showAddModal' = FALSE
    /\ selectedCourse' = 0
    /\ estimatedTime' = DefaultEstimate
    /\ planNotes' = ""
    /\ IssuePlannedFetch
    /\ alertMsg' = "SESSION PLANNED!"
    /\ lastCall' = NoCall
    /\ CalendarStays
    /\ UNCHANGED <<calendarSelectedDate, plannedSessions, calendar>>

\* Mutant: the catch of handleAddSession fetches the sessions as well.
AddFail_Refetches(k, stored) ==
    /\ k \in DOMAIN sessionCalls
    /\ sessionCalls[k].op = "add"
    /\ dbPlanned' = IF stored
                      THEN StoreSession(dbPlanned, sessionCalls[k].body, dbNextId)
                      ELSE dbPlanned
    /\ dbNextId' = IF stored THEN dbNextId + 1 ELSE dbNextId
    /\ sessionCalls' = RemoveAt(sessionCalls, k)
    /\ IssuePlannedFetch
    /\ alertMsg' = "ERROR PLANNING SESSION"
    /\ lastCall' = NoCall
    /\ CalendarStays
    /\ UNCHANGED <<showAddModal, calendarSelectedDate, selectedCourse,
                   estimatedTime, planNotes, plannedSessions, calendar>>

\* The POST fails, before or after the backend stored the session: the
\* catch shows ERROR PLANNING SESSION (part_001:771-774).
AddFail(k, stored) ==
    /\ k \in DOMAIN sessionCalls
    /\ sessionCalls[k].op = "add"
    /\ dbPlanned' = IF stored
                      THEN StoreSession(dbPlanned, sessionCalls[k].body, dbNextId)
                      ELSE dbPlanned
    /\ dbNextId' = IF stored THEN dbNextId + 1 ELSE dbNextId
    /\ sessionCalls' = RemoveAt(sessionCalls, k)
    /\ alertMsg' = "ERROR PLANNING SESSION"
    /\ lastCall' = NoCall
    /\ CalendarStays
    /\ UNCHANGED <<showAddModal, calendarSelectedDate, selectedCourse,
                   estimatedTime, planNotes, plannedFetch, plannedSessions,
                   calendar>>

\* handleDeleteSession(sessionId) up to its await, part_001:777-781, on a
\* session of the upcoming list; confirmed is the answer to window.confirm.
HandleDeleteSession(i, confirmed) ==
    /\ ~showAddModal
    /\ i \in DOMAIN Upcoming(plannedSessions)
    /\ IF confirmed
         THEN /\ Len(sessionCalls) + Len(plannedFetch) < MaxWrites
              /\ sessionCalls' = Append(sessionCalls,
                     [op |-> "delete", id |-> Upcoming(plannedSessions)[i].id,
                      body |-> NoBody])
         ELSE UNCHANGED sessionCalls
    /\ lastCall' = [op |-> "deleteSession",
                    id |-> Upcoming(plannedSessions)[i].id, was |-> "",
                    sent |-> confirmed]
    /\ alertMsg' = ""
    /\ CalendarStays
    /\ UNCHANGED <<showAddModal, calendarSelectedDate, selectedCourse,
                   estimatedTime, planNotes, plannedFetch, dbNextId, dbPlanned,
                   plannedSessions, calendar>>

\* The DELETE is answered: onSessionDeleted issues its fetch.
DeleteOk(k) ==
    /\ k \in DOMAIN sessionCalls
    /\ sessionCalls[k].op = "delete"
    /\ \E j \in DOMAIN dbPlanned : dbPlanned[j].id = sessionCalls[k].id
    /\ dbPlanned' = DropSession(dbPlanned, sessionCalls[k].id)
    /\ sessionCalls' = RemoveAt(sessionCalls, k)
    /\ IssuePlannedFetch
    /\ alertMsg' = ""
    /\ lastCall' = NoCall
    /\ CalendarStays
    /\ UNCHANGED <<showAddModal, calendarSelectedDate, selectedCourse,
                   estimatedTime, planNotes, dbNextId, plannedSessions, calendar>>

\* The DELETE fails, before or after the backend dropped the session: the
\* catch logs it (part_001:783-785).
DeleteFail(k, applied) ==
    /\ k \in DOMAIN sessionCalls
    /\ sessionCalls[k].op = "delete"
    /\ dbPlanned' = IF applied THEN DropSession(dbPlanned, sessionCalls[k].id)
                    ELSE dbPlanned
    /\ sessionCalls' = RemoveAt(sessionCalls, k)
    /\ alertMsg' = ""
    /\ lastCall' = NoCall
    /\ CalendarStays
    /\ UNCHANGED <<showAddModal, calendarSelectedDate, selectedCourse,
                   estimatedTime, planNotes, plannedFetch, dbNextId,
                   plannedSessions, calendar>>

\* The backend handles the GET of fetch f.
PlannedServe(f) ==
    /\ f \in DOMAIN plannedFetch
    /\ plannedFetch[f].st = "sent"
    /\ plannedFetch' = [plannedFetch EXCEPT
                           ![f] = [st |-> "replied", data |-> Reply("planned")]]
    /\ lastCall' = NoCall
    /\ alertMsg' = ""
    /\ CalendarStays
    /\ UNCHANGED <<showAddModal, calendarSelectedDate, selectedCourse,
                   estimatedTime, planNotes, sessionCalls, dbNextId, dbPlanned,
                   plannedSessions, calendar>>

\* The response arrives: setPlannedSessions(response.data), and the grid is
\* rendered again.
PlannedDeliver(f) ==
    /\ f \in DOMAIN plannedFetch
    /\ plannedFetch[f].st = "replied"
    /\ plannedSessions' = plannedFetch[f].data.planned
    /\ plannedFetch' = RemoveAt(plannedFetch, f)
    /\ calendar' = RenderCalendar(currentDate, dailyLogs, plannedSessions')
    /\ lastCall' = NoCall
    /\ alertMsg' = ""
    /\ CalendarStays
    /\ UNCHANGED <<showAddModal, calendarSelectedDate, selectedCourse,
                   estimatedTime, planNotes, sessionCalls, dbNextId, dbPlanned>>

\* The GET fails: the catch of fetchPlannedSessions logs it.
PlannedFail(f) ==
    /\ f \in DOMAIN plannedFetch
    /\ plannedFetch' = RemoveAt(plannedFetch, f)
    /\ lastCall' = NoCall
    /\ alertMsg' = ""
    /\ CalendarStays
    /\ UNCHANGED <<showAddModal, calendarSelectedDate, selectedCourse,
                   estimatedTime, planNotes, sessionCalls, dbNextId, dbPlanned,
                   plannedSessions, calendar>>

(***************************************************************************)
(* The planning model: the page has loaded, the calendar tab is shown in   *)
(* the month of today, and the user plans and deletes sessions.            *)
(***************************************************************************)
InitPlan ==
    /\ db = [i \in CourseIds |-> Seeded(i, Unstarted)]
    /\ dbLogs = <<>>
    /\ dbPlanned = <<>>
    /\ courses = CourseList(db)
    /\ analytics = <<Summary(db)>>
    /\ dailyLogs = <<>>
    /\ plannedSessions = <<>>
    /\ loading = FALSE
    /\ showCourseDetail = <<>>
    /\ progress = 0
    /\ initPc = "done"
    /\ initFetch = [l \in Lists |-> [st |-> "done", data |-> NoData]]
    /\ updates = <<>>
    /\ refetch = <<>>
    /\ lastCall = NoCall
    /\ InitFilter
    /\ view = Unrendered
    /\ InitTracker
    /\ currentDate = [year |-> Today.year, month |-> Today.month]
    /\ todayMonth = currentDate
    /\ monthsMoved = 0
    /\ showAddModal = FALSE
    /\ calendarSelectedDate = <<>>
    /\ selectedCourse = 0
    /\ estimatedTime = DefaultEstimate
    /\ planNotes = ""
    /\ sessionCalls = <<>>
    /\ plannedFetch = <<>>
    /\ dbNextId = 1
    /\ calendar = RenderCalendar(currentDate, dailyLogs, plannedSessions)

NextPlan ==
    \/ \E day \in ClickDays : ClickDay(day)
    \/ CloseAddModal
    \/ \E id \in {0} \cup CourseIds : SetSelectedCourse(id)
    \/ \E text \in EstimateTexts : SetEstimatedTime(text)
    \/ \E text \in PlanTexts : SetPlanNotes(text)
    \/ HandleAddSession
    \/ \E k \in 1..MaxWrites : AddOk(k)
    \/ \E k \in 1..MaxWrites : \E stored \in BOOLEAN : AddFail(k, stored)
    \/ \E i \in 1..MaxSessions : \E confirmed \in BOOLEAN :
          HandleDeleteSession(i, confirmed)
    \/ \E k \in 1..MaxWrites : DeleteOk(k)
    \/ \E k \in 1..MaxWrites : \E applied \in BOOLEAN : DeleteFail(k, applied)
    \/ \E f \in 1..MaxWrites : PlannedServe(f)
    \/ \E f \in 1..MaxWrites : PlannedDeliver(f)
    \/ \E f \in 1..MaxWrites : PlannedFail(f)

SpecPlan == InitPlan /\ [][NextPlan]_vars

(***************************************************************************)
(* The streak of the header (part_001:143).  The backend computes          *)
(* current_streak for GET /api/analytics/summary; the client shows it.     *)
(* Summary above carries the counts of the courses; SummaryOn adds the     *)
(* field derived from the daily logs.                                      *)
(***************************************************************************)
MaxBack == 4           \* how many days before today a stored log may lie

TodayDay == MakeDay(Today.year, Today.month, Today.day)

\* The YYYY-MM-DD string of a day number.
IsoOf(day) ==
    DateStr([year |-> YearFromDay(day), month |-> MonthFromDay(day)],
            DateFromDay(day))

\* The distinct days that have at least one daily log.
LogDays(logs) == {DayOf(logs[i].date) : i \in DOMAIN logs}

LatestDay(days) == CHOOSE d \in days : \A e \in days : e <= d

RECURSIVE RunEndingAt(_, _)
\* The logged days in a row that end at day d.
RunEndingAt(days, d) ==
    IF d \in days THEN 1 + RunEndingAt(days, d - 1) ELSE 0

\* current_streak: the consecutive logged days ending at the most recent
\* logged day, reported as 0 if that day is more than one day in the past.
CurrentStreak(days, today) ==
    IF days = {} THEN 0
    ELSE IF today - LatestDay(days) > 1 THEN 0
    ELSE RunEndingAt(days, LatestDay(days))

\* GET /api/analytics/summary, with the field derived from the logs.
SummaryOn(d, logs) ==
    [total_courses |-> Summary(d).total_courses,
     completed_courses |-> Summary(d).completed_courses,
     in_progress_courses |-> Summary(d).in_progress_courses,
     current_streak |-> CurrentStreak(LogDays(logs), TodayDay)]

\* Mutant: a flag instead of the count.
HeaderStreak_Flag(a) ==
    IF a = <<>> THEN 0 ELSE IF a[1].current_streak # 0 THEN 1 ELSE 0

\* streak={analytics?.current_streak || 0}
HeaderStreak(a) ==
    IF a = <<>> THEN 0
    ELSE IF a[1].current_streak = 0 THEN 0 ELSE a[1].current_streak

RECURSIVE LogsOf(_)
\* One stored log for each of the days, oldest first.
LogsOf(days) ==
    IF days = {} THEN <<>>
    ELSE LET d == CHOOSE e \in days : \A f \in days : e <= f
         IN <<GridLog(1, IsoOf(d))>> \o LogsOf(days \ {d})

\* The backend handles the GET of fetchAnalytics.
StreakServe ==
    /\ initPc = "fetching"
    /\ initFetch["analytics"].st = "sent"
    /\ initFetch' = [initFetch EXCEPT !["analytics"] =
          [st |-> "replied",
           data |-> [NoData EXCEPT !.summary = <<SummaryOn(db, dbLogs)>>]]]
    /\ lastCall' = NoCall
    /\ UNCHANGED <<db, dbLogs, dbPlanned, courses, analytics, dailyLogs,
                   plannedSessions, loading, showCourseDetail, progress,
                   initPc, updates>>
    /\ UNCHANGED <<refetch, filterVars, trackerVars, calendarVars>>

\* The streak model: the backend holds logs of some of the last days, and
\* initializeApp has loaded everything but the analytics.
InitStreak ==
    /\ db = [i \in CourseIds |-> Seeded(i, Unstarted)]
    /\ \E days \in SUBSET ((TodayDay - MaxBack)..TodayDay) :
       \E again \in BOOLEAN :
          /\ again => days # {}
          /\ dbLogs = IF again
                        THEN LogsOf(days) \o <<GridLog(2, IsoOf(LatestDay(days)))>>
                        ELSE LogsOf(days)
    /\ dbPlanned = <<>>
    /\ courses = CourseList(db)
    /\ analytics = <<>>
    /\ dailyLogs = dbLogs
    /\ plannedSessions = <<>>
    /\ loading = TRUE
    /\ showCourseDetail = <<>>
    /\ progress = 0
    /\ initPc = "fetching"
    /\ initFetch = [l \in Lists |->
                      IF l = "analytics" THEN [st |-> "sent", data |-> NoData]
                      ELSE [st |-> "done", data |-> NoData]]
    /\ updates = <<>>
    /\ refetch = <<>>
    /\ lastCall = NoCall
    /\ InitFilter
    /\ view = Unrendered
    /\ InitTracker
    /\ InitCalendar

NextStreak ==
    \/ StreakServe
    \/ InitDeliver("analytics")
    \/ InitFail("analytics")
    \/ InitFinish

SpecStreak == InitStreak /\ [][NextStreak]_vars

(***************************************************************************)
(* The race model: a daily log has been saved, the three fetches of        *)
(* onLogAdded (part_001:175-179) are in flight, and the user has moved to  *)
(* the courses tab and uses START and DONE.  No request fails: responses   *)
(* are only delayed.                                                       *)
(***************************************************************************)
SavedLog ==
    [date |-> "2026-11-05",
     courses |-> <<[course_id |-> 1, course_title |-> "HTML Basics",
                    time_spent |-> 30, progress_notes |-> ""]>>,
     notes |-> "", mood |-> 0]

\* No request is in flight.
NothingInFlight ==
    /\ updates = <<>>
    /\ refetch = <<>>
    /\ posts = <<>>
    /\ sessionCalls = <<>>
    /\ plannedFetch = <<>>
    /\ initPc = "done"

InitRace ==
    /\ db = [i \in CourseIds |-> Seeded(i, Unstarted)]
    /\ dbLogs = StoreLog(<<>>, SavedLog)
    /\ dbPlanned = <<>>
    /\ courses = CourseList(db)
    /\ analytics = <<Summary(db)>>
    /\ dailyLogs = <<>>
    /\ plannedSessions = <<>>
    /\ loading = FALSE
    /\ showCourseDetail = <<>>
    /\ progress = 0
    /\ initPc = "done"
    /\ initFetch = [l \in Lists |-> [st |-> "done", data |-> NoData]]
    /\ updates = <<>>
    /\ refetch = <<[l \in RefetchLists |-> [st |-> "sent", data |-> NoData]]>>
    /\ lastCall = NoCall
    /\ InitFilter
    /\ view = Unrendered
    /\ InitTracker
    /\ InitCalendar

NextRace ==
    \/ \E l \in RefetchLists : RefetchServe(1, l)
    \/ \E l \in RefetchLists : RefetchDeliver(1, l)
    \/ \E i \in 1..Len(Catalog) : ClickStart(i)
    \/ \E i \in 1..Len(Catalog) : ClickDone(i)
    \/ \E k \in 1..MaxCalls : PatchOk(k)
    \/ \E k \in 1..MaxCalls : Serve(k)
    \/ \E k \in 1..MaxCalls : Deliver(k)

SpecRace == InitRace /\ [][NextRace]_vars

(***************************************************************************)
(* Properties of the progress mutation, checked under Spec.                *)
(***************************************************************************)
\* Everything of the App but lastCall: what a handler that does nothing
\* leaves alone.
appState == <<db, dbLogs, dbPlanned, courses, analytics, dailyLogs,
              plannedSessions, loading, showCourseDetail, progress, initPc,
              initFetch, updates, refetch, filterVars, trackerVars, calendarVars>>

\* The request the latest step issued.
Issued == updates[Len(updates)]

\* C1: whatever start, complete and manual updates have been made, every
\* (progress, status) pair the client sends, every pair the backend stores
\* and every pair the client holds satisfies: status is Completed iff
\* progress is 100, and status Not Started implies progress 0.
C1_ProgressMatchesStatus ==
    /\ \A k \in DOMAIN updates : ValidPair(updates[k].progress, updates[k].status)
    /\ \A i \in CourseIds : ValidPair(db[i].progress, db[i].status)
    /\ \A i \in DOMAIN courses : ValidPair(courses[i].progress, courses[i].status)

\* C1 witness: the backend has applied a manual update to 99.
C1_Witness ==
    \E k \in DOMAIN updates :
        /\ updates[k].close
        /\ updates[k].pc = "courses"
        /\ db[updates[k].id].progress = 99
        /\ db[updates[k].id].status = InProgress

\* C2: start on a Not Started course issues exactly one progress update,
\* with progress 5 and status In Progress; start on any other course sends
\* nothing and changes nothing.
C2_StartOnlyFromNotStarted ==
    [][lastCall'.op = "start" =>
         IF lastCall'.was = NotStarted
           THEN /\ Len(updates') = Len(updates) + 1
                /\ \A k \in DOMAIN updates : updates'[k] = updates[k]
                /\ updates'[Len(updates')].id = lastCall'.id
                /\ updates'[Len(updates')].progress = 5
                /\ updates'[Len(updates')].status = "In Progress"
                /\ updates'[Len(updates')].pc = "patch"
                /\ UNCHANGED <<db, courses, showCourseDetail>>
           ELSE UNCHANGED appState]_vars

\* C2 witness: start was invoked on an In Progress course and nothing is
\* in flight.
C2_Witness ==
    /\ lastCall.op = "start"
    /\ lastCall.was = InProgress
    /\ updates = <<>>

\* C3: once the backend holds a course as Completed, no step moves it to
\* another status.
C3_CompletedIsTerminal ==
    [][\A i \in CourseIds :
          db[i].status = Completed => db'[i].status = Completed]_vars

\* C4: a manual update sends the slider's progress p, within 0..100, with
\* status Completed when p >= 100, In Progress when 0 < p < 100 and
\* Not Started when p = 0, whatever the status of the course was.
C4_ManualUpdateDerivesStatus ==
    [][lastCall'.op = "update" =>
         /\ showCourseDetail # <<>>
         /\ progress \in 0..100
         /\ Len(updates') = Len(updates) + 1
         /\ updates'[Len(updates')].id = showCourseDetail[1].id
         /\ updates'[Len(updates')].progress = progress
         /\ updates'[Len(updates')].pc = "patch"
         /\ progress >= 100 => updates'[Len(updates')].status = "Completed"
         /\ (0 < progress /\ progress < 100) =>
                updates'[Len(updates')].status = "In Progress"
         /\ progress = 0 => updates'[Len(updates')].status = "Not Started"]_vars

\* C4 witness: a manual update to 100 on a course shown as Not Started has
\* sent Completed.
C4_Witness ==
    /\ lastCall.op = "update"
    /\ lastCall.was = NotStarted
    /\ Issued.progress = 100
    /\ Issued.status = Completed

\* C5: complete, on a course of any status, issues a progress update with
\* progress 100 and status Completed.
C5_CompleteFromAnyStatus ==
    [][lastCall'.op = "complete" =>
         /\ lastCall'.was \in Statuses
         /\ Len(updates') = Len(updates) + 1
         /\ \A k \in DOMAIN updates : updates'[k] = updates[k]
         /\ updates'[Len(updates')].id = lastCall'.id
         /\ updates'[Len(updates')].progress = 100
         /\ updates'[Len(updates')].status = "Completed"
         /\ updates'[Len(updates')].pc = "patch"]_vars

\* C5 witness: complete was invoked on a Not Started course and its
\* request is in flight.
C5_Witness ==
    /\ lastCall.op = "complete"
    /\ lastCall.was = NotStarted
    /\ Issued.progress = 100
    /\ Issued.status = Completed
    /\ Issued.pc = "patch"

(***************************************************************************)
(* Properties of filtering and grouping, checked under SpecFilter and      *)
(* SpecGroup.                                                              *)
(***************************************************************************)
\* result is the subsequence of list made of the elements Keep holds of,
\* in the order of list.
IsSubsequenceWhere(result, list, Keep(_)) ==
    LET kept == {i \in DOMAIN list : Keep(list[i])}
    IN /\ Len(result) = Cardinality(kept)
       /\ \A i \in kept : result[Cardinality({j \in kept : j <= i})] = list[i]

\* A course satisfies every criterion that is not "all" (phase: not null).
Satisfies(c) ==
    /\ selectedPhase # 0 => c.phase = selectedPhase
    /\ statusFilter # "all" => c.status = statusFilter
    /\ priorityFilter # "all" => c.priority = priorityFilter

\* C6: the filtered view is exactly the subsequence of the courses that
\* satisfy every active criterion, in list order; with every criterion at
\* "all" it is the whole list.
C6_FilteredViewIsSubsequence ==
    /\ IsSubsequenceWhere(view.filtered, courses, Satisfies)
    /\ (selectedPhase = 0 /\ statusFilter = "all" /\ priorityFilter = "all")
           => view.filtered = courses

\* C6 witness: with the three criteria active, the first and the third of
\* three courses are kept and the second is not.
C6_Witness ==
    /\ Len(courses) = 3
    /\ selectedPhase # 0 /\ statusFilter # "all" /\ priorityFilter # "all"
    /\ Len(view.filtered) = 2
    /\ view.filtered[1].id = 1
    /\ view.filtered[2].id = 3

\* C7: each phase card shows exactly the courses of the flat filtered list
\* that belong to its phase, in the same order, no card is empty, and the
\* cards together show the courses of the flat filtered list.
C7_SectionsMatchFlatList ==
    /\ \A k \in DOMAIN view.sections :
          /\ view.sections[k].courses # <<>>
          /\ IsSubsequenceWhere(view.sections[k].courses, view.filtered,
                                LAMBDA c : c.phase = view.sections[k].phase)
    /\ \A k, h \in DOMAIN view.sections :
          view.sections[k].phase = view.sections[h].phase => k = h
    /\ {view.sections[k].courses[j] :
            <<k, j>> \in {kj \in (DOMAIN view.sections) \X (1..MaxLen) :
                             kj[2] <= Len(view.sections[kj[1]].courses)}}
         = {view.filtered[i] : i \in DOMAIN view.filtered}

\* C7 witness: a phase is selected, the list holds courses of another
\* phase, and a card is shown.
C7_Witness ==
    /\ selectedPhase # 0
    /\ statusFilter # "all"
    /\ \E i \in DOMAIN courses : courses[i].phase # selectedPhase
                                  /\ courses[i].status = statusFilter
    /\ Len(view.sections) = 1
    /\ Len(view.sections[1].courses) = 2

ByPhase(list) == getFilteredCourses(list, selectedPhase, "all", "all")
ByStatus(list) == getFilteredCourses(list, 0, statusFilter, "all")
ByPriority(list) == getFilteredCourses(list, 0, "all", priorityFilter)

\* C8: applying the phase, status and priority criteria one after another,
\* in any of the six orders, gives the list that applying them together
\* gives.
C8_CriteriaCommute ==
    /\ ByPriority(ByStatus(ByPhase(courses))) = view.filtered
    /\ ByStatus(ByPriority(ByPhase(courses))) = view.filtered
    /\ ByPriority(ByPhase(ByStatus(courses))) = view.filtered
    /\ ByPhase(ByPriority(ByStatus(courses))) = view.filtered
    /\ ByStatus(ByPhase(ByPriority(courses))) = view.filtered
    /\ ByPhase(ByStatus(ByPriority(courses))) = view.filtered

\* C8 witness: the three criteria are active and each of them alone
\* excludes a course the two others keep.
C8_Witness ==
    /\ selectedPhase # 0 /\ statusFilter # "all" /\ priorityFilter # "all"
    /\ Len(courses) = 3
    /\ Len(ByPhase(courses)) = 2
    /\ Len(ByStatus(courses)) = 2
    /\ Len(ByPriority(courses)) = 2
    /\ view.filtered = <<>>

\* C9: the grouping has exactly the phases that have a course as keys; the
\* courses of a phase are the subsequence of the list that belongs to it,
\* so that every course is in one group, once; and the title of a phase is
\* the phase_title of the first course of that phase.
C9_GroupingByPhase ==
    /\ DOMAIN view.phases = {courses[i].phase : i \in DOMAIN courses}
    /\ \A ph \in DOMAIN view.phases :
          LET first == CHOOSE i \in DOMAIN courses :
                           /\ courses[i].phase = ph
                           /\ \A j \in 1..(i - 1) : courses[j].phase # ph
          IN /\ view.phases[ph].courses # <<>>
             /\ IsSubsequenceWhere(view.phases[ph].courses, courses,
                                   LAMBDA c : c.phase = ph)
             /\ view.phases[ph].title = courses[first].phase_title
    /\ \A i \in DOMAIN courses :
          Cardinality({pk \in (DOMAIN view.phases) \X (1..MaxLen) :
                          /\ pk[2] <= Len(view.phases[pk[1]].courses)
                          /\ view.phases[pk[1]].courses[pk[2]] = courses[i]}) = 1

\* C9 witness: the first and third course are of one phase under two
\* titles, the second of another, and the phase has the first one's title.
C9_Witness ==
    /\ Len(courses) = 3
    /\ courses[1].phase = courses[3].phase
    /\ courses[2].phase # courses[1].phase
    /\ courses[1].phase_title # courses[3].phase_title
    /\ view.phases[courses[1].phase].title = courses[1].phase_title
    /\ Len(view.phases[courses[1].phase].courses) = 2

(***************************************************************************)
(* Properties of the daily-log submission, checked under SpecLog.          *)
(***************************************************************************)
formState == <<selectedDate, selectedCourses, notes, mood>>

\* C10: a submission whose entry list is empty, or none of whose entries
\* has both a selected course and a positive time, shows an alert, sends
\* nothing and leaves the form as it was.
C10_RejectedSubmission ==
    [][(/\ lastCall'.op = "submit"
        /\ \/ selectedCourses = <<>>
           \/ ~ \E i \in DOMAIN selectedCourses :
                    /\ selectedCourses[i].course_id # 0
                    /\ selectedCourses[i].time_spent > 0)
       => /\ alertMsg' # ""
          /\ UNCHANGED <<posts, refetch, dbLogs>>
          /\ UNCHANGED formState]_vars

\* C10 witness: the form holds one entry with a course and 0 minutes, and
\* the submission was answered by the alert, with nothing in flight.
C10_Witness ==
    /\ lastCall.op = "submit"
    /\ alertMsg = "SELECT COURSES AND ADD TIME"
    /\ Len(selectedCourses) = 1
    /\ selectedCourses[1].course_id = 1
    /\ selectedCourses[1].time_spent = 0
    /\ posts = <<>>

\* An entry of the form with a selected course and a positive time.
Loggable(c) == c.course_id # 0 /\ c.time_spent > 0

\* C11: a submission of a form with at least one entry that has a course
\* and a positive time is accepted: it sends one request, which carries
\* exactly those entries in form order (the others are dropped) with the
\* selected date, the notes and the mood.
C11_AcceptedSubmissionPayload ==
    [][(/\ lastCall'.op = "submit"
        /\ \E i \in DOMAIN selectedCourses : Loggable(selectedCourses[i]))
       => /\ lastCall'.sent
          /\ Len(posts') = Len(posts) + 1
          /\ \A k \in DOMAIN posts : posts'[k] = posts[k]
          /\ IsSubsequenceWhere(posts'[Len(posts')].courses, selectedCourses,
                                Loggable)
          /\ posts'[Len(posts')].date = selectedDate
          /\ posts'[Len(posts')].notes = notes
          /\ posts'[Len(posts')].mood = mood]_vars

\* C11 witness: the form held a course with 30 minutes and a blank entry,
\* and the request in flight carries the first entry only.
C11_Witness ==
    /\ lastCall.op = "submit"
    /\ lastCall.sent
    /\ Len(selectedCourses) = 2
    /\ selectedCourses[1].course_id = 1
    /\ selectedCourses[1].time_spent = 30
    /\ selectedCourses[2] = BlankEntry
    /\ Len(posts) = 1
    /\ posts[1].courses = <<selectedCourses[1]>>
    /\ posts[1].date = selectedDate

(***************************************************************************)
(* Properties of the fetches, checked under Spec.                          *)
(***************************************************************************)
\* The four lists the App holds.
held == <<courses, analytics, dailyLogs, plannedSessions>>

\* The list named l, as the App holds it, and as a response body carries it.
Held(l) ==
    CASE l = "courses" -> courses
      [] l = "analytics" -> analytics
      [] l = "logs" -> dailyLogs
      [] l = "planned" -> plannedSessions

\* The list named l as the App holds it after the step.
HeldNext(l) ==
    CASE l = "courses" -> courses'
      [] l = "analytics" -> analytics'
      [] l = "logs" -> dailyLogs'
      [] l = "planned" -> plannedSessions'

Carried(l, data) ==
    CASE l = "courses" -> data.courses
      [] l = "analytics" -> data.summary
      [] l = "logs" -> data.logs
      [] l = "planned" -> data.planned

\* Fetch k of updateCourseProgress is over in the step: the call went on to
\* its next await or returned.
FetchOver(k) ==
    /\ updates[k].pc \in {"courses", "analytics"}
    /\ \/ updates' = RemoveAt(updates, k)
       \/ /\ Len(updates') = Len(updates)
          /\ updates'[k].pc # updates[k].pc

\* The step stored the response body data as list l and touched no other
\* list.
Stored(l, data) ==
    /\ HeldNext(l) = Carried(l, data)
    /\ \A o \in Lists \ {l} : HeldNext(o) = Held(o)

\* C13: a fetch that ends without a response leaves the four lists as they
\* were and shows no message; a fetch that ends after the backend answered
\* either stores the answer as its own list or, the answer being lost,
\* leaves the four lists as they were, and shows no message either way.
C13_FailedFetchKeepsSnapshots ==
    [][/\ \A l \in Lists :
            /\ (initFetch[l].st = "sent" /\ initFetch'[l].st = "done")
                   => UNCHANGED held /\ alertMsg' = ""
            /\ (initFetch[l].st = "replied" /\ initFetch'[l].st = "done")
                   => /\ UNCHANGED held \/ Stored(l, initFetch[l].data)
                      /\ alertMsg' = ""
       /\ \A k \in DOMAIN updates :
            /\ (FetchOver(k) /\ updates[k].st = "sent")
                   => UNCHANGED held /\ alertMsg' = ""
            /\ (FetchOver(k) /\ updates[k].st = "replied")
                   => /\ UNCHANGED held \/ Stored(updates[k].pc, updates[k].data)
                      /\ alertMsg' = ""]_vars

\* C13 witness: the PATCH of a call was applied, its fetch of the courses
\* is over, and the App still holds the list it had before, which differs
\* from the backend's: the fetch failed and the old snapshot stayed.
C13_Witness ==
    /\ Len(updates) = 1
    /\ updates[1].pc = "analytics"
    /\ courses # <<>>
    /\ db[updates[1].id].progress = updates[1].progress
    /\ courses[updates[1].id].progress # updates[1].progress
    /\ alertMsg = ""

\* The response bodies on their way to the client that carry list l.
Answers(l) ==
    {initFetch[l].data : x \in {y \in {l} : initFetch[y].st = "replied"}}
    \cup {updates[k].data :
             k \in {j \in DOMAIN updates :
                       updates[j].pc = l /\ updates[j].st = "replied"}}
    \cup {refetch[b][l].data :
             b \in {j \in DOMAIN refetch :
                       l \in DOMAIN refetch[j] /\ refetch[j][l].st = "replied"}}

\* C15: a list the App holds changes only in a step that stores a
\* response of the backend to a fetch of that list, and to the value that
\* response carries; a response carries the list as the backend held it
\* when it answered.  So each list is its initial value or a value the
\* backend returned.
C15_NoOptimisticUpdate ==
    [][/\ \A l \in Lists :
            HeldNext(l) # Held(l)
               => \E data \in Answers(l) : HeldNext(l) = Carried(l, data)
       /\ \A l \in Lists :
            (initFetch[l].st = "sent" /\ initFetch'[l].st = "replied")
               => initFetch'[l].data = Reply(l)
       /\ \A k \in DOMAIN updates :
            (updates[k].st = "sent" /\ Len(updates') = Len(updates)
                                    /\ updates'[k].st = "replied")
               => updates'[k].data = Reply(updates[k].pc)]_vars

\* C15 witness: complete was clicked on a course, the backend has stored
\* Completed, the fetch of the courses is on its way, and the App still
\* holds the course as it was fetched last.
C15_Witness ==
    /\ Len(updates) = 1
    /\ updates[1].pc = "courses"
    /\ updates[1].st = "sent"
    /\ updates[1].status = Completed
    /\ db[updates[1].id].status = Completed
    /\ courses # <<>>
    /\ courses[updates[1].id].status = NotStarted

(***************************************************************************)
(* Properties of the calendar grid, checked under SpecGrid.                *)
(***************************************************************************)
\* The Gregorian calendar, stated without day numbers: the length of month
\* m (1..12) of year y, and the weekday (0 = Sunday) of a date by
\* Sakamoto's rule.
MonthLength(y, m) ==
    IF m \in {4, 6, 9, 11} THEN 30
    ELSE IF m # 2 THEN 31
    ELSE IF (y % 4 = 0 /\ y % 100 # 0) \/ y % 400 = 0 THEN 29 ELSE 28

WeekdayOf(y, m, d) ==
    LET shift == <<0, 3, 2, 5, 0, 3, 5, 1, 4, 6, 2, 4>>
        yy == IF m < 3 THEN y - 1 ELSE y
    IN (yy + (yy \div 4) - (yy \div 100) + (yy \div 400) + shift[m] + d) % 7

\* C16: the grid of the month shown has as many leading blank cells as the
\* weekday index (0 = Sunday) of the first of the month, followed by one
\* cell per day 1..N, N being the number of days of the month.
C16_CalendarGrid ==
    /\ calendar.blanks = WeekdayOf(currentDate.year, currentDate.month + 1, 1)
    /\ Len(calendar.days) = MonthLength(currentDate.year, currentDate.month + 1)
    /\ \A i \in DOMAIN calendar.days : calendar.days[i].day = i

\* C16 witness: the user has moved to July 2026, a month of 31 days that
\* starts on a Wednesday: 3 blanks and 31 day cells.
C16_Witness ==
    /\ currentDate = [year |-> 2026, month |-> 6]
    /\ monthsMoved # 0
    /\ calendar.blanks = 3
    /\ Len(calendar.days) = 31

\* C17: every day cell carries its date as a zero-padded YYYY-MM-DD string,
\* at most one daily log, which is the first of the list whose date is that
\* string (none if there is none), and exactly the planned sessions whose
\* planned_date is that string, in list order.
C17_ActivityOfADay ==
    /\ \A i \in DOMAIN calendar.days :
          LET cell == calendar.days[i]
              hits == {j \in DOMAIN dailyLogs : dailyLogs[j].date = cell.dateStr}
          IN /\ Len(cell.dateStr) = 10
             /\ Len(cell.log) <= 1
             /\ (cell.log = <<>>) <=> (hits = {})
             /\ \A j \in hits :
                   (\A h \in hits : j <= h) => cell.log = <<dailyLogs[j]>>
             /\ IsSubsequenceWhere(cell.planned, plannedSessions,
                                   LAMBDA q : q.planned_date = cell.dateStr)
    /\ \A date \in GridDates :
          (\E i \in DOMAIN calendar.days : calendar.days[i].dateStr = date)
             <=> currentDate = [year |-> 2026, month |-> 10]
    /\ currentDate = [year |-> 2026, month |-> 10]
          => /\ calendar.days[5].dateStr = "2026-11-05"
             /\ calendar.days[30].dateStr = "2026-11-30"

\* C17 witness: November 2026 is shown, two logs and two sessions carry
\* the 5th, and the cell of the 5th has the first of the logs and both
\* sessions, while the cell of the 30th has nothing.
C17_Witness ==
    /\ currentDate = [year |-> 2026, month |-> 10]
    /\ Len(dailyLogs) = 2
    /\ dailyLogs[1].date = "2026-11-05"
    /\ dailyLogs[2].date = "2026-11-05"
    /\ calendar.days[5].log = <<dailyLogs[1]>>
    /\ calendar.days[5].planned = plannedSessions
    /\ Len(plannedSessions) = 2
    /\ calendar.days[30].log = <<>>
    /\ calendar.days[30].planned = <<>>

(***************************************************************************)
(* Properties of planning and deleting sessions, checked under SpecPlan.   *)
(***************************************************************************)
planForm == <<showAddModal, calendarSelectedDate, selectedCourse,
              estimatedTime, planNotes>>

\* C14: ADD SESSION pressed while no course or no date is selected is
\* rejected in the same step with the alert SELECT COURSE AND DATE: no
\* request is issued, and the modal stays open with its date, course,
\* estimated time and notes as they were.
C14_RejectedSessionAdd ==
    [][(lastCall'.op = "addSession"
          /\ (selectedCourse = 0 \/ calendarSelectedDate = <<>>))
       => /\ alertMsg' = "SELECT COURSE AND DATE"
          /\ ~lastCall'.sent
          /\ UNCHANGED <<sessionCalls, plannedFetch, dbPlanned, dbNextId>>
          /\ UNCHANGED planForm
          /\ UNCHANGED held]_vars

\* C14 witness: the modal is open on a clicked day with an estimate and
\* notes typed in and no course chosen, and the alert has just been shown.
C14_Witness ==
    /\ lastCall.op = "addSession"
    /\ ~lastCall.sent
    /\ alertMsg = "SELECT COURSE AND DATE"
    /\ showAddModal
    /\ selectedCourse = 0
    /\ calendarSelectedDate = <<"2026-11-05">>
    /\ estimatedTime = 30
    /\ planNotes = "flexbox"
    /\ sessionCalls = <<>>

(***************************************************************************)
(* Properties of the failure of a write, over all four mutations.          *)
(***************************************************************************)
\* A write request of one of the four mutations fails in this step.
WriteFails ==
    \/ \E k \in DOMAIN updates : PatchFail(k) \/ PatchLost(k)
    \/ \E k \in DOMAIN posts : \E stored \in BOOLEAN : PostFail(k, stored)
    \/ \E k \in DOMAIN sessionCalls : \E stored \in BOOLEAN : AddFail(k, stored)
    \/ \E k \in DOMAIN sessionCalls : \E applied \in BOOLEAN : DeleteFail(k, applied)

\* C12: the step in which the write of a progress update, of a daily-log
\* submission, of a planned-session add or of a planned-session delete
\* fails shows an alert to the user and leaves the four held lists as they
\* were.
C12_FailedWriteIsSurfaced ==
    [][WriteFails => (alertMsg' # "" /\ UNCHANGED held)]_vars

(***************************************************************************)
(* Properties of the re-fetch after a write, over all four mutations.      *)
(***************************************************************************)
\* The calls of updateCourseProgress that are at the fetch of list l.
FetchingCalls(calls, l) == Cardinality({k \in DOMAIN calls : calls[k].pc = l})

\* The calls of updateCourseProgress that are past their PATCH.
PastPatch(calls) == Cardinality({k \in DOMAIN calls : calls[k].pc # "patch"})

\* A mutation issues the first fetch of its re-fetch in this step.
RefetchIssued ==
    \/ PastPatch(updates') > PastPatch(updates)
    \/ Len(refetch') > Len(refetch)
    \/ Len(plannedFetch') > Len(plannedFetch)

\* A write request of one of the four mutations is answered in this step.
WriteSucceeds ==
    \/ \E k \in DOMAIN updates : PatchOk(k)
    \/ \E k \in DOMAIN posts : PostOk(k)
    \/ \E k \in DOMAIN sessionCalls : AddOk(k) \/ DeleteOk(k)

\* C20: a mutation issues its re-fetch only in the step in which its write
\* request is answered, hence after the backend has applied it; the step in
\* which a write fails issues none; and updateCourseProgress fetches the
\* analytics only once its fetch of the courses is over.
C20_RefetchAfterWrite ==
    [][/\ RefetchIssued => WriteSucceeds
       /\ WriteFails => ~RefetchIssued
       /\ FetchingCalls(updates', "analytics") > FetchingCalls(updates, "analytics")
             => FetchingCalls(updates', "courses") < FetchingCalls(updates, "courses")
      ]_vars

\* C20 witness: the POST of a session has been answered, the backend holds
\* the session, and fetchPlannedSessions has just been issued.
C20_Witness ==
    /\ alertMsg = "SESSION PLANNED!"
    /\ sessionCalls = <<>>
    /\ Len(dbPlanned) = 1
    /\ plannedSessions = <<>>
    /\ Len(plannedFetch) = 1
    /\ plannedFetch[1].st = "sent"

(***************************************************************************)
(* Properties of concurrent fetches of one list, checked under SpecRace.   *)
(***************************************************************************)
\* The response to the fetchCourses of onLogAdded is stored in this step.
BatchCoursesArrive ==
    /\ refetch # <<>>
    /\ refetch[1]["courses"].st = "replied"
    /\ refetch' = <<>> \/ refetch'[1]["courses"].st = "done"

\* The response to the fetchCourses of updateCourseProgress call k is
\* stored in this step.
CallCoursesArrive(k) ==
    /\ Len(updates') = Len(updates)
    /\ updates[k].pc = "courses"
    /\ updates[k].st = "replied"
    /\ updates'[k].pc = "analytics"

\* C19: a response to a fetch of the courses replaces the held course list
\* with its data whenever it arrives, whatever is held, so that a response
\* computed before a write and arriving after the response to a later
\* fetch puts the older list back.
C19_LateResponseOverwrites ==
    [][/\ BatchCoursesArrive => courses' = refetch[1]["courses"].data.courses
       /\ \A k \in DOMAIN updates :
             CallCoursesArrive(k) => courses' = updates[k].data.courses
      ]_vars

\* C19 witness: no request has failed and none is in flight any more, the
\* backend holds the course as started or completed, and the held list
\* still says Not Started: the answer to the earlier fetch came last.
C19_Witness ==
    /\ NothingInFlight
    /\ db[1].status # NotStarted
    /\ courses[1].status = NotStarted
    /\ courses # CourseList(db)

(***************************************************************************)
(* Properties of the streak, checked under SpecStreak.                     *)
(***************************************************************************)
\* The number of consecutive logged days counted backward from the most
\* recent logged day up to the first gap; 0 without logs.
RunFromLatest(days) ==
    IF days = {} THEN 0
    ELSE CHOOSE n \in 1..Cardinality(days) :
            /\ \A i \in 0..(n - 1) : LatestDay(days) - i \in days
            /\ LatestDay(days) - n \notin days

\* The page has loaded and holds the analytics of the backend.
StreakShown == initPc = "done" /\ analytics # <<>>

Pending(f) == f.st \in {"sent", "replied"}

\* C21 as stated: the three fetches of onLogAdded run one after the other:
\* the fetch of the courses is pending only once the fetch of the logs is
\* over, and the fetch of the analytics only once both are over.
C21_SequentialRefetch ==
    \A b \in DOMAIN refetch :
       /\ Pending(refetch[b]["courses"]) => refetch[b]["logs"].st = "done"
       /\ Pending(refetch[b]["analytics"])
             => /\ refetch[b]["logs"].st = "done"
                /\ refetch[b]["courses"].st = "done"

\* C21 amended: the step in which the POST is answered issues the three
\* fetches together, none waiting for another; from then on each of them
\* is pending until its own response is handled, whatever the others do.
C21_RefetchIssuedTogether ==
    [][/\ Len(refetch') > Len(refetch)
            => /\ WriteSucceeds
               /\ \A l \in RefetchLists : refetch'[Len(refetch')][l].st = "sent"
       /\ \A b \in DOMAIN refetch' : \A l \in RefetchLists :
             refetch'[b][l].st \in {"sent", "replied", "done"}
      ]_vars

\* C21 witness: the fetch of the analytics is over while the fetches of the
\* logs and of the courses, issued before it, are still pending.
C21_Witness ==
    /\ Len(refetch) = 1
    /\ refetch[1]["analytics"].st = "done"
    /\ refetch[1]["logs"].st = "sent"
    /\ refetch[1]["courses"].st = "replied"

(***************************************************************************)
(* Properties of initializeApp, checked under SpecFair and Spec.           *)
(***************************************************************************)
\* C22: if every request of initializeApp is eventually answered or fails,
\* the loading flag eventually becomes false and stays false, whichever of
\* the seed call and the four fetches fail.
C22_LoadingEnds == <>[](~loading)

\* C22 witness: the fetch of the analytics has failed, the fetch of the
\* courses has not, and the page has left the loading screen.
C22_Witness ==
    /\ initPc = "done"
    /\ ~loading
    /\ analytics = <<>>
    /\ courses # <<>>

(***************************************************************************)
(* Frame properties of the client's requests, checked under Spec.          *)
(***************************************************************************)
\* C23: whatever start, complete and manual-update actions have run, the
\* backend holds every seeded course, each with its seeded title, phase,
\* phase title and priority; a progress update in flight names a course, a
\* progress and a status; and a course list the client holds shows the
\* seeded values too.
C23_PhaseNeverChanges ==
    /\ DOMAIN db = CourseIds
    /\ \A i \in CourseIds :
          /\ db[i].phase = Catalog[i].phase
          /\ db[i].phase_title = Catalog[i].phase_title
          /\ db[i].priority = Catalog[i].priority
          /\ db[i].title = Catalog[i].title
    /\ \A k \in DOMAIN updates :
          /\ updates[k].id \in CourseIds
          /\ updates[k].progress \in 0..100
          /\ updates[k].status \in Statuses
    /\ \A i \in DOMAIN courses :
          /\ courses[i].phase = Catalog[courses[i].id].phase
          /\ courses[i].phase_title = Catalog[courses[i].id].phase_title
          /\ courses[i].priority = Catalog[courses[i].id].priority
    /\ courses = <<>> \/ Len(courses) = Len(Catalog)

\* C23 witness: the client holds the course as Completed, and the backend
\* has since applied a manual update that lowers it to 99.
C23_Witness ==
    \E k \in DOMAIN updates :
        /\ updates[k].close
        /\ updates[k].pc = "courses"
        /\ courses # <<>>
        /\ courses[1].status = Completed
        /\ db[1].progress = 99
        /\ db[1].phase = Catalog[1].phase

IsStart(k) ==
    /\ ~updates[k].close
    /\ updates[k].progress = StartProgress
    /\ updates[k].status = InProgress

\* C25: the PATCH of a start is applied by the backend only while the
\* backend holds the course as Not Started, and never lowers the progress
\* the backend holds.
C25_StartReachesNotStarted ==
    [][\A k \in DOMAIN updates :
          (IsStart(k) /\ (PatchOk(k) \/ PatchLost(k)))
             => /\ db[updates[k].id].status = NotStarted
                /\ db'[updates[k].id].progress >= db[updates[k].id].progress
      ]_vars

(***************************************************************************)
(* Properties of the courses a submission names, checked under SpecSwitch. *)
(***************************************************************************)
\* C26: every entry a submission sends names a course that the course list
\* the client holds at that moment does not show as Completed.
C26_SubmitsOpenCourses ==
    [][(lastCall'.op = "submit" /\ lastCall'.sent)
         => \A e \in DOMAIN posts'[Len(posts')].courses :
               \A j \in DOMAIN courses :
                  courses[j].id = posts'[Len(posts')].courses[e].course_id
                     => courses[j].status # Completed
      ]_vars

(***************************************************************************)
(* Properties of the form after a submission, checked under SpecLog.       *)
(***************************************************************************)
\* C27: when the POST of a submission is answered, LOG SAVED! is shown, the
\* entries, the notes and the mood are reset and the date is kept; when it
\* fails, ERROR SAVING LOG is shown, entries, notes, mood and date are
\* kept, and no fetch is issued.
C27_FormAfterSubmission ==
    [][Len(posts') < Len(posts)
         => \/ /\ alertMsg' = "LOG SAVED!"
               /\ selectedCourses' = <<>>
               /\ notes' = ""
               /\ mood' = 0
               /\ selectedDate' = selectedDate
               /\ Len(refetch') = Len(refetch) + 1
            \/ /\ alertMsg' = "ERROR SAVING LOG"
               /\ UNCHANGED formState
               /\ UNCHANGED refetch
               /\ UNCHANGED held
      ]_vars

\* C27 witness: a submission with notes, a mood and yesterday's date has
\* been answered: the form is empty again and still shows yesterday.
C27_Witness ==
    /\ alertMsg = "LOG SAVED!"
    /\ Len(dbLogs) = 1
    /\ dbLogs[1].notes # ""
    /\ dbLogs[1].mood # 0
    /\ dbLogs[1].date = "2026-11-04"
    /\ selectedCourses = <<>>
    /\ notes = ""
    /\ mood = 0
    /\ selectedDate = "2026-11-04"

\* C27 second witness: a submission has failed and the form still holds
\* what was submitted.
C27_FailureWitness ==
    /\ alertMsg = "ERROR SAVING LOG"
    /\ selectedCourses # <<>>
    /\ notes # ""
    /\ mood # 0
    /\ refetch = <<>>

(***************************************************************************)
(* The duration of a log in the lists of recent logs: the Dashboard and    *)
(* the DailyTracker of each theme variant render                           *)
(* total_time_spent as hours and minutes.                                  *)
(***************************************************************************)
MaxRows == 2           \* longest log list drawn for the recent-log lists
MaxMinutes == 125      \* largest total_time_spent drawn

\* Math.floor(t / 60) for an integer t >= 0.
FloorHours(t) == t \div 60

\* Math.round(t / 60) for an integer t >= 0: the nearest integer, a half
\* rounding up.
RoundHours(t) == (t + 30) \div 60

\* The lists of recent logs: the file and the component that renders them.
DurationPlaces ==
    { [variant |-> "part_001", place |-> "Dashboard"],
      [variant |-> "part_001", place |-> "DailyTracker"],
      [variant |-> "part_000", place |-> "Dashboard"],
      [variant |-> "part_000", place |-> "DailyTracker"],
      [variant |-> "App_new", place |-> "Dashboard"] }

\* dailyLogs.slice(0, n): how many logs the list shows at most.
SliceLength(p) ==
    IF p.place = "DailyTracker" THEN 10
    ELSE IF p.variant = "part_000" THEN 7 ELSE 5

\* The hours the list shows for a log of t minutes.
ShownHours(p, t) ==
    IF p.variant = "part_000" /\ p.place = "Dashboard"
      THEN RoundHours(t)
      ELSE FloorHours(t)

\* The minutes the list shows: log.total_time_spent % 60.
ShownMinutes(p, t) == t % 60

\* The rows of the list: each log's total with the hours and minutes shown.
RecentLogs(p, logs) ==
    LET n == IF Len(logs) < SliceLength(p) THEN Len(logs) ELSE SliceLength(p)
    IN  [i \in 1..n |->
           [total |-> logs[i].total_time_spent,
            H |-> ShownHours(p, logs[i].total_time_spent),
            M |-> ShownMinutes(p, logs[i].total_time_spent)]]

\* The component renders its list of recent logs.
RenderRecentLogs(p) ==
    /\ view' = [place |-> p, rows |-> RecentLogs(p, dailyLogs)]
    /\ UNCHANGED <<appVars, trackerVars, calendarVars>>
    /\ UNCHANGED <<selectedPhase, statusFilter, priorityFilter>>

\* A log as GET /api/logs returns it, with a total of t minutes.
TimedLog(t) ==
    [date |-> "2026-11-05",
     courses |-> <<[course_id |-> 1, course_title |-> "HTML Basics",
                    time_spent |-> t, progress_notes |-> ""]>>,
     notes |-> "", mood |-> 0, total_time_spent |-> t]

\* The app is loaded and holds the logs of the backend.
InitDuration ==
    /\ db = [i \in CourseIds |-> Seeded(i, Unstarted)]
    /\ \E n \in 0..MaxRows : \E ts \in [1..n -> 0..MaxMinutes] :
           dbLogs = [i \in 1..n |-> TimedLog(ts[i])]
    /\ dbPlanned = <<>>
    /\ courses = CourseList(db)
    /\ analytics = <<Summary(db)>>
    /\ dailyLogs = dbLogs
    /\ plannedSessions = <<>>
    /\ loading = FALSE
    /\ showCourseDetail = <<>>
    /\ progress = 0
    /\ initPc = "done"
    /\ initFetch = [l \in Lists |-> [st |-> "done", data |-> NoData]]
    /\ updates = <<>>
    /\ refetch = <<>>
    /\ lastCall = NoCall
    /\ InitFilter
    /\ view = Unrendered
    /\ InitTracker
    /\ InitCalendar

NextDuration == \E p \in DurationPlaces : RenderRecentLogs(p)

SpecDuration == InitDuration /\ [][NextDuration]_vars

\* A row whose hours and minutes give back the total of its log.
Reconstructs(row) ==
    /\ 60 * row.H + row.M = row.total
    /\ 0 <= row.M
    /\ row.M < 60

\* C28: in every theme variant and every place a log's duration is shown,
\* the hours H and minutes M shown give back the log's total:
\* 60*H + M = total_time_spent and 0 <= M < 60.
C28_DurationReconstructs ==
    "rows" \in DOMAIN view
      => \A i \in DOMAIN view.rows : Reconstructs(view.rows[i])

\* The lists that take the hours with Math.floor do give back the total.
FloorPlacesReconstruct ==
    ("rows" \in DOMAIN view
       /\ ~(view.place.variant = "part_000" /\ view.place.place = "Dashboard"))
      => \A i \in DOMAIN view.rows : Reconstructs(view.rows[i])

\* The Dashboard of part_000 shows a log of 30 minutes as 1h 30m.
RoundedHalfHour ==
    /\ "rows" \in DOMAIN view
    /\ view.place = [variant |-> "part_000", place |-> "Dashboard"]
    /\ Len(view.rows) > 0
    /\ view.rows[1] = [total |-> 30, H |-> 1, M |-> 30]

(***************************************************************************)
(* Properties of a failed seeding, checked under Spec.                     *)
(***************************************************************************)
\* None of the four GETs of initializeApp is under way.
NoInitFetch == \A l \in Lists : initFetch[l].st = "done"

\* The four lists are as useState made them.
ListsEmpty ==
    /\ courses = <<>>
    /\ dailyLogs = <<>>
    /\ plannedSessions = <<>>
    /\ analytics = <<>>

\* C29: when the seed POST fails none of the four fetches is issued; courses,
\* logs and planned sessions remain empty, analytics null, and loading still
\* becomes false; nothing is fetched later on either.
C29_SeedFailureSkipsFetches ==
    /\ [][(initPc = "seed" /\ initPc' = "done")
            => /\ ~loading'
               /\ NoInitFetch'
               /\ UNCHANGED initFetch
               /\ ListsEmpty'
               /\ updates' = <<>>]_vars
    /\ [][(initPc = "done" /\ ListsEmpty)
            => /\ ListsEmpty'
               /\ NoInitFetch'
               /\ ~loading'
               /\ UNCHANGED <<updates, db>>]_vars

\* The seeding has failed over a backend that holds courses under way.
C29_Witness ==
    /\ initPc = "done"
    /\ ~loading
    /\ ListsEmpty
    /\ NoInitFetch
    /\ \E i \in CourseIds : db[i].status = InProgress

(***************************************************************************)
(* Properties of the month navigation, checked under SpecGrid.             *)
(***************************************************************************)
\* The months from year 0 to the month d.
MonthIndex(d) == 12 * d.year + d.month

\* C30: after any sequence of PREV and NEXT the month shown is the month of
\* the start shifted by the NEXTs minus the PREVs, the year carrying: NEXT
\* from December gives January of the next year, PREV from January gives
\* December of the year before, and PREV then NEXT gives the same month.
C30_MonthNavigationExact ==
    /\ [](/\ currentDate.month \in 0..11
          /\ MonthIndex(currentDate) = MonthIndex(todayMonth) + monthsMoved)
    /\ [][(monthsMoved' = monthsMoved + 1 /\ currentDate.month = 11)
            => currentDate' = [year |-> currentDate.year + 1, month |-> 0]]_vars
    /\ [][(monthsMoved' = monthsMoved - 1 /\ currentDate.month = 0)
            => currentDate' = [year |-> currentDate.year - 1, month |-> 11]]_vars
    /\ [][(monthsMoved' = monthsMoved + 1 /\ currentDate.month < 11)
            => currentDate' = [currentDate EXCEPT !.month = @ + 1]]_vars
    /\ [][(monthsMoved' = monthsMoved - 1 /\ currentDate.month > 0)
            => currentDate' = [currentDate EXCEPT !.month = @ - 1]]_vars

\* Two NEXTs from a December: February of the next year is shown.
C30_Witness ==
    /\ todayMonth.month = 11
    /\ monthsMoved = 2
    /\ currentDate = [year |-> todayMonth.year + 1, month |-> 1]

\* Two PREVs from a January: November of the year before is shown.
C30_BackWitness ==
    /\ todayMonth.month = 0
    /\ monthsMoved = -2
    /\ currentDate = [year |-> todayMonth.year - 1, month |-> 10]

=============================================================================
